---- MODULE Spec2Model ----
(***************************************************************************)
(* Mesh membership of the peer-to-peer room of App.tsx: every participant  *)
(* runs the same component; the transport (PeerJS) supplies one media      *)
(* connection and one data connection per connectToPeer and delivers the   *)
(* 'connection', 'call', 'open', 'data', 'stream', 'close' and 'error'     *)
(* events.  One action of the model is one event handler, timer callback   *)
(* or user action of the component, run to completion (single thread).     *)
(***************************************************************************)
EXTENDS Integers, Sequences, FiniteSets, TLC

\* ------------------------------------------------------------ bounds ----
MaxJoins == 2       \* submissions of the lobby join form
MaxPairs == 1       \* connectToPeer calls that get past the guard
MaxFaults == 1      \* transport failures (spontaneous close / error events)
MaxToggles == 1     \* mute / deafen clicks
MaxPins == 1        \* double clicks on a video tile
MaxHosts == 1       \* room creations
MaxForeign == 3     \* data connections offered by peers that are not members
MaxStarts == 2      \* activities opened or closed
MaxDraws == 2       \* segments drawn on the whiteboard
MaxClears == 2      \* clicks on the clear button
MaxPages == 1       \* clicks on the page buttons
MaxAdds == 2        \* videos added to the queue
MaxMoves == 1       \* queue items moved or removed
MaxChats == 1       \* chat messages typed
MaxUnknown == 2     \* messages of another revision that arrive
MaxLeaves == 1      \* clicks on a leave button
MaxEvents == 2      \* state changes of the player made by its user

\* ------------------------------------------------- program constants ----
MAX_PEERS_LIMIT == 3
DefaultCapacity == 4
DefaultVolume == 1
DriftThreshold == 15    \* 1.5 s, in tenths of a second
PLAYING == 1
PAUSED == 2
BUFFERING == 3
UNSTARTED == 0 - 1
ENDED == 0
Capacities == {2, 3, 4}

\* ------------------------------------------------------------- ids ------
Ids == {"A", "B", "C", "D", "E"}

\* the user inputs the model draws from: who may create a room, and which
\* <<member, id typed in the join form>> pairs may be submitted
HostIds == {"B"}
JoinPairs == {<<"A", "B">>, <<"B", "A">>, <<"C", "B">>}
NoChan == <<>>
Nobody == "none"

VARIABLES
    online,         \* ids that have logged in (peerRef.current is set)
    viewState,      \* [id -> "lobby" | "room"]
    roomCapacity,   \* [id -> 2..4]
    peers,          \* [id -> [subset of Ids -> RemotePeer]]
    incomingCall,   \* [id -> call key | NoChan]
    peerAnalysers,  \* [id -> set of ids]
    pinnedView,     \* [id -> "none" | "local" | "activity" | id]
    local,          \* [id -> own status flags, activity, displayName, avatar]
    timers,         \* [id -> queue of pending 500 ms timeouts]
    calls,          \* media connections, keyed <<initiator, target, n>>
    conns,          \* data connections, keyed <<initiator, target, n>>
    left,           \* what remains of each bound of the explored runs
    deadSends,      \* sends handed to a data connection that was not open
    refused,        \* channels closed on arrival by the admission check
    isWaitingForHost, \* [id -> the waiting screen hides the room]
    revision,       \* which revision of the component runs: "App.tsx" | "part_001"
    activityView,   \* [id -> "none" | "youtube" | "whiteboard"]
    wbPageIndex,    \* [id -> page shown by the whiteboard]
    wbHistory,      \* [id -> [pages -> sequence of DrawLine]]
    canvas,         \* [id -> raster of the whiteboard canvas]
    wbDrawingQueue, \* [id -> DrawLines waiting for the next tick] (part_001)
    youtubeQueue,   \* [id -> sequence of QueueItem]
    currentVideo,   \* [id -> QueueItem | NoItem]
    player,         \* [id -> the YouTube player: exists, state, time]
    isRemoteUpdate, \* [id -> the remote-update guard]
    guardTimers,    \* [id -> pending 800 ms timeouts that lift the guard]
    pendingAdds,    \* [id -> the addToQueue calls that await fetchVideoMeta]
    now,            \* Date.now()
    acts,           \* what remains of each bound of the activity runs
    chatHistory     \* [id -> the messages of the chat panel]

\* the state of the shared activities
activity == <<revision, activityView, wbPageIndex, wbHistory, canvas,
              wbDrawingQueue, youtubeQueue, currentVideo, player,
              isRemoteUpdate, guardTimers, pendingAdds, now, acts>>

vars == <<online, viewState, roomCapacity, peers, incomingCall, peerAnalysers,
          pinnedView, local, timers, calls, conns, left, deadSends, refused,
          isWaitingForHost, activity, chatHistory>>

\* ------------------------------------------------------ small helpers ---
Upd(f, k, v) == [x \in (DOMAIN f) \cup {k} |-> IF x = k THEN v ELSE f[x]]

Del(f, k) == [x \in (DOMAIN f) \ {k} |-> f[x]]

Initiator(key) == key[1]

Target(key) == key[2]

\* the end of channel key that member m holds, and the peer at the other end
EndOf(key, m) == IF Initiator(key) = m THEN "ini" ELSE "tgt"

OtherEnd(end) == IF end = "ini" THEN "tgt" ELSE "ini"

Owner(key, end) == IF end = "ini" THEN Initiator(key) ELSE Target(key)

RemoteOf(key, end) == Owner(key, OtherEnd(end))

\* mirror ref of the peer map: the effect assigns it after each commit, so a
\* handler reads the map as it was when the handler started
peersRef(m) == peers[m]

roomCapacityRef(m) == roomCapacity[m]

\* ---------------------------------------------------- presence store ----
DefaultStatus ==
    [muted |-> FALSE, deafened |-> FALSE, videoEnabled |-> FALSE,
     isScreenSharing |-> FALSE]

\* the record addPeer starts from when the id has no entry yet; the optional
\* fields avatar, stream, dataConn and mediaCall are absent
NewPeer(id) ==
    [id |-> id, displayName |-> "Connexion...", status |-> DefaultStatus,
     volume |-> DefaultVolume, isSpeaking |-> FALSE, currentActivity |-> "none",
     avatar |-> "none", stream |-> FALSE, dataConn |-> NoChan,
     mediaCall |-> NoChan]

\* faulty variant: the record is rebuilt from the defaults, so a partial
\* update clobbers what it does not name
MergeOverDefaults(existing, partial) ==
    [f \in (DOMAIN existing) \cup (DOMAIN partial) |->
        IF f \in DOMAIN partial THEN partial[f]
        ELSE IF f = "id" THEN existing.id
        ELSE NewPeer(existing.id)[f]]

\* { ...existing, ...partialPeer }
Merge(existing, partial) ==
    [f \in (DOMAIN existing) \cup (DOMAIN partial) |->
        IF f \in DOMAIN partial THEN partial[f] ELSE existing[f]]

addPeer(pm, id, partialPeer) ==
    Upd(pm, id, Merge(IF id \in DOMAIN pm THEN pm[id] ELSE NewPeer(id),
                      partialPeer))

\* ------------------------------------------------------- transport ------
QueueTo(end) == IF end = "tgt" THEN "toTgt" ELSE "toIni"

NewCall == [ini |-> "calling", tgt |-> "offered",
            iniStream |-> FALSE, tgtStream |-> FALSE]

NewConn == [ini |-> "connecting", tgt |-> "offered",
            toTgt |-> <<>>, toIni |-> <<>>]

\* close() on the end of call key held by m; closing twice changes nothing
CloseCall(cs, key, m) ==
    IF key = NoChan THEN cs
    ELSE [cs EXCEPT ![key][EndOf(key, m)] = "closed"]

\* close() on the end of data connection key held by m; what was still in
\* flight towards that end is lost
CloseConn(cs, key, m) ==
    IF key = NoChan THEN cs
    ELSE [cs EXCEPT ![key][EndOf(key, m)] = "closed",
                    ![key][QueueTo(EndOf(key, m))] = <<>>]

IsOpen(cs, key, m) == cs[key][EndOf(key, m)] = "open"

\* conn.send(msg) by m: the transport carries it only on an open connection
Send(cs, key, m, msg) ==
    IF IsOpen(cs, key, m)
    THEN [cs EXCEPT ![key][QueueTo(OtherEnd(EndOf(key, m)))] = Append(@, msg)]
    ELSE cs

DeadSend(cs, key, m, msg) ==
    IF IsOpen(cs, key, m) THEN {}
    ELSE {[by |-> m, conn |-> key, type |-> msg.type]}

\* event handlers are wired on the initiator's end from creation, on the
\* target's end of a data connection once adopted, of a call once answered
ConnWired(key, end) ==
    IF end = "ini" THEN conns[key].ini \in {"connecting", "open"}
    ELSE conns[key].tgt \in {"adopted", "open"}

CallWired(key, end) ==
    IF end = "ini" THEN calls[key].ini = "calling"
    ELSE calls[key].tgt = "answered"

\* ------------------------------------------------------- messages -------
StatusMsg(m) ==
    [type |-> "status", muted |-> local[m].muted,
     deafened |-> local[m].deafened, videoEnabled |-> local[m].videoEnabled,
     isScreenSharing |-> local[m].isScreenSharing,
     currentActivity |-> local[m].currentActivity]

ProfileMsg(m) ==
    [type |-> "profile-update", avatar |-> local[m].avatar,
     displayName |-> local[m].displayName]

\* faulty variant: the list goes out empty
PeerListMsgEmpty(ids) == [type |-> "peer-list", peers |-> {}]

PeerListMsg(ids) == [type |-> "peer-list", peers |-> ids]

\* ------------------------------------------------------ removePeer ------
\* faulty variant: the failure of one peer empties the map
removePeerPeersAll(m, id) == <<>>

removePeerPeers(m, id) == Del(peers[m], id)

removePeerCalls(cs, m, id) ==
    IF id \in DOMAIN peers[m] THEN CloseCall(cs, peers[m][id].mediaCall, m)
    ELSE cs

removePeerConns(cs, m, id) ==
    IF id \in DOMAIN peers[m] THEN CloseConn(cs, peers[m][id].dataConn, m)
    ELSE cs

removePeerAnalysers(m, id) == peerAnalysers[m] \ {id}

\* faulty variant: the pinned view is left on the removed peer
removePeerPinnedKept(m, id) == pinnedView[m]

removePeerPinned(m, id) ==
    IF pinnedView[m] = id THEN "none" ELSE pinnedView[m]

\* removePeer(id) at m, applied after the event changed the channels to
\* cs (calls) and cn (data connections)
removePeer(m, id, cs, cn) ==
    /\ calls' = removePeerCalls(cs, m, id)
    /\ conns' = removePeerConns(cn, m, id)
    /\ peers' = [peers EXCEPT ![m] = removePeerPeers(m, id)]
    /\ peerAnalysers' = [peerAnalysers EXCEPT ![m] = removePeerAnalysers(m, id)]
    /\ pinnedView' = [pinnedView EXCEPT ![m] = removePeerPinned(m, id)]
    /\ isWaitingForHost' = [isWaitingForHost EXCEPT ![m] = FALSE]

\* ------------------------------------------------------ connectToPeer ---
\* values captured by the closure a data connection's handlers run in: the
\* handlers of an incoming connection are wired by the 'connection' listener
\* registered in the login form's submit handler, whose render still had
\* peerId = null and localStream = null; those of an outgoing connection are
\* wired from a render after login
ClosurePeerId(m, end) == IF end = "ini" THEN m ELSE Nobody

ClosureLocalStream(end) == end = "ini"

\* faulty variant: the guard without the look at the peer map
connectToPeerPassesKnown(m, targetId, end) ==
    /\ m \in online
    /\ ClosureLocalStream(end)
    /\ targetId # ClosurePeerId(m, end)

connectToPeerPasses(m, targetId, end) ==
    /\ m \in online
    /\ ClosureLocalStream(end)
    /\ targetId \notin DOMAIN peersRef(m)
    /\ targetId # ClosurePeerId(m, end)

ConnectTimer(targetId) == [kind |-> "connect", target |-> targetId]

Orderings(S) ==
    IF S = {} THEN {<<>>}
    ELSE {q \in [1..Cardinality(S) -> S] :
             \A i, j \in DOMAIN q : i # j => q[i] # q[j]}

\* ----------------------------------------------------- whiteboard ------
\* the canvas is a row of pixels; a DrawLine runs from prevX to x
Pixels == {0, 1}

Colors == {"red", "blue"}

Blank == "blank"

DrawLines ==
    [prevX : Pixels, x : Pixels, color : Colors, isEraser : BOOLEAN]

BlankCanvas == [px \in Pixels |-> Blank]

Cover(data) ==
    {px \in Pixels : \/ data.prevX <= px /\ px <= data.x
                     \/ data.x <= px /\ px <= data.prevX}

\* stroke from prev to x: 'source-over' in the colour of the line, or
\* 'destination-out' for the eraser
drawOnCanvas(data, raster) ==
    [px \in Pixels |->
        IF px \in Cover(data)
        THEN IF data.isEraser THEN Blank ELSE data.color
        ELSE raster[px]]

RECURSIVE DrawAll(_, _)
DrawAll(lines, raster) ==
    IF lines = <<>> THEN raster
    ELSE DrawAll(Tail(lines), drawOnCanvas(Head(lines), raster))

\* clearRect, then history.forEach(line => drawOnCanvas(line, canvas))
Replay(history) == DrawAll(history, BlankCanvas)

\* wbHistoryRef.current.get(page) || []
HistoryOf(h, page) == IF page \in DOMAIN h THEN h[page] ELSE <<>>

\* if (!has(page)) set(page, []); get(page).push(line), for every line
PushAll(h, page, lines) == Upd(h, page, HistoryOf(h, page) \o lines)

\* the canvas element exists while the whiteboard panel is shown
HasCanvas(m) == activityView[m] = "whiteboard" /\ pinnedView[m] = "activity"

\* the redraw effect, run after a render that changed page or activity
Redraw(view, pinned, h, page, raster) ==
    IF view = "whiteboard" /\ pinned = "activity"
    THEN Replay(HistoryOf(h, page))
    ELSE raster

WbMsg(action, data) ==
    [type |-> "activity", activityType |-> "whiteboard", action |-> action,
     data |-> data]

YtMsg(action, data) ==
    [type |-> "activity", activityType |-> "youtube", action |-> action,
     data |-> data]

\* the activity shown in the render that registered the handlers of a data
\* connection: the login form for the adopting end, the lobby for the
\* initiating end; no activity is shown in either
ClosureActivityView(m, end) == "none"

\* the page shown in that render: the explored runs register the handlers
\* before any page switch
ClosureWbPageIndex(m, end) == 0

\* -------------------------------------------------------- youtube -------
VideoIds == {"v1", "v2"}

NoItem == [id |-> 0, videoId |-> "none", addedBy |-> "none"]

\* positions of the player, in tenths of a second
Times == {50, 85, 90, 100}

NoPlayer == [exists |-> FALSE, state |-> UNSTARTED, time |-> 0,
             videoId |-> "none", events |-> <<>>]

Abs(n) == IF n < 0 THEN 0 - n ELSE n

\* Math.abs(myTime - (currentTime || 0)) > 1.5
NeedsSeek(myTime, currentTime) == Abs(myTime - currentTime) > DriftThreshold

\* seekTo, playVideo and pauseVideo of a received sync-state; the player
\* reports each change through onStateChange later on
ApplySync(pl, d) ==
    LET seek == NeedsSeek(pl.time, d.currentTime)
        play == d.playerState = PLAYING /\ pl.state # PLAYING
        pause == ~play /\ d.playerState = PAUSED
    IN  [pl EXCEPT
           !.time = IF seek THEN d.currentTime ELSE @,
           !.state = IF play THEN PLAYING ELSE IF pause THEN PAUSED ELSE @,
           !.events = @ \o (IF seek THEN <<BUFFERING>> ELSE <<>>)
                       \o (IF play THEN <<PLAYING>>
                           ELSE IF pause /\ pl.state # PAUSED THEN <<PAUSED>>
                           ELSE <<>>)]

\* loadVideoById
LoadVideo(pl, videoId) ==
    IF pl.exists
    THEN [pl EXCEPT !.videoId = videoId, !.time = 0, !.state = PLAYING]
    ELSE pl

\* prev.filter(i => i.id !== videoId)
RECURSIVE Without(_, _)
Without(queue, id) ==
    IF queue = <<>> THEN <<>>
    ELSE IF Head(queue).id = id THEN Without(Tail(queue), id)
    ELSE <<Head(queue)>> \o Without(Tail(queue), id)

\* ------------------------------------------------------------ Init ------
LocalInit(m) ==
    [muted |-> FALSE, deafened |-> FALSE, videoEnabled |-> FALSE,
     isScreenSharing |-> FALSE, currentActivity |-> "none",
     displayName |-> m, avatar |-> "none", videoTrack |-> "none"]

Budget(joins, pairs, faults, toggles, pins, hosts, foreign) ==
    [joins |-> joins, pairs |-> pairs, faults |-> faults, toggles |-> toggles,
     pins |-> pins, hosts |-> hosts, foreign |-> foreign]

ActsBudget(starts, draws, clears, pages, adds, moves, events) ==
    [starts |-> starts, draws |-> draws, clears |-> clears, pages |-> pages,
     adds |-> adds, moves |-> moves, events |-> events]

\* no activity is open, the whiteboard and the queue are empty
ActivityInit(rev, budget) ==
    /\ revision = rev
    /\ activityView = [m \in Ids |-> "none"]
    /\ wbPageIndex = [m \in Ids |-> 0]
    /\ wbHistory = [m \in Ids |-> <<>>]
    /\ canvas = [m \in Ids |-> BlankCanvas]
    /\ wbDrawingQueue = [m \in Ids |-> <<>>]
    /\ youtubeQueue = [m \in Ids |-> <<>>]
    /\ currentVideo = [m \in Ids |-> NoItem]
    /\ player = [m \in Ids |-> NoPlayer]
    /\ isRemoteUpdate = [m \in Ids |-> FALSE]
    /\ guardTimers = [m \in Ids |-> 0]
    /\ pendingAdds = [m \in Ids |-> <<>>]
    /\ now = 1
    /\ acts = budget
    /\ chatHistory = [m \in Ids |-> <<>>]

NoActs == ActsBudget(0, 0, 0, 0, 0, 0, 0)

\* every member has logged in and sits in the lobby
InitWithActs(members, budget, actsBudget) ==
    /\ online = members
    /\ viewState = [m \in Ids |-> "lobby"]
    /\ roomCapacity = [m \in Ids |-> DefaultCapacity]
    /\ peers = [m \in Ids |-> <<>>]
    /\ incomingCall = [m \in Ids |-> NoChan]
    /\ peerAnalysers = [m \in Ids |-> {}]
    /\ pinnedView = [m \in Ids |-> "none"]
    /\ local = [m \in Ids |-> LocalInit(m)]
    /\ timers = [m \in Ids |-> <<>>]
    /\ calls = <<>>
    /\ conns = <<>>
    /\ left = budget
    /\ deadSends = {}
    /\ refused = {}
    /\ isWaitingForHost = [m \in Ids |-> FALSE]
    /\ ActivityInit("App.tsx", actsBudget)

InitWith(members, budget) == InitWithActs(members, budget, NoActs)

Init ==
    InitWith({"A", "B"},
             Budget(MaxJoins, MaxPairs, MaxFaults, MaxToggles, MaxPins,
                    MaxHosts, 0))

Spend(what) == [left EXCEPT ![what] = @ - 1]

\* ---------------------------------------------------- user: lobby -------
StartRoomTransition(m, capacity) ==
    /\ m \in online
    /\ m \in HostIds
    /\ viewState[m] = "lobby"
    /\ left.hosts > 0
    /\ timers' = [timers EXCEPT ![m] =
                     Append(@, [kind |-> "room", capacity |-> capacity])]
    /\ left' = Spend("hosts")
    /\ UNCHANGED <<online, viewState, roomCapacity, peers, incomingCall,
                   peerAnalysers, pinnedView, local, calls, conns, deadSends, refused, isWaitingForHost>>
    /\ UNCHANGED <<activity, chatHistory>>

RoomTimeout(m) ==
    /\ timers[m] # <<>>
    /\ Head(timers[m]).kind = "room"
    /\ roomCapacity' = [roomCapacity EXCEPT ![m] = Head(timers[m]).capacity]
    /\ viewState' = [viewState EXCEPT ![m] = "room"]
    /\ timers' = [timers EXCEPT ![m] = Tail(@)]
    /\ UNCHANGED <<online, peers, incomingCall, peerAnalysers, pinnedView,
                   local, calls, conns, left, deadSends, refused, isWaitingForHost>>
    /\ UNCHANGED <<activity, chatHistory>>

\* the join form of the lobby: connectToPeer(remoteIdInput) unless it is the
\* own id
SubmitJoin(m, targetId) ==
    /\ m \in online
    /\ viewState[m] = "lobby"
    /\ targetId # m
    /\ <<m, targetId>> \in JoinPairs
    /\ left.joins > 0
    /\ IF connectToPeerPasses(m, targetId, "ini")
       THEN /\ left.pairs > 0
            /\ timers' = [timers EXCEPT ![m] = Append(@, ConnectTimer(targetId))]
            /\ left' = [left EXCEPT !.joins = @ - 1, !.pairs = @ - 1]
       ELSE /\ timers' = timers
            /\ left' = Spend("joins")
    /\ UNCHANGED <<online, viewState, roomCapacity, peers, incomingCall,
                   peerAnalysers, pinnedView, local, calls, conns, deadSends, refused, isWaitingForHost>>
    /\ UNCHANGED <<activity, chatHistory>>

Opened(from, to) ==
    Cardinality({k \in DOMAIN conns : Initiator(k) = from /\ Target(k) = to})

\* the delayed body of connectToPeer
ConnectTimeout(m) ==
    /\ timers[m] # <<>>
    /\ Head(timers[m]).kind = "connect"
    /\ LET targetId == Head(timers[m]).target
           key == <<m, targetId, Opened(m, targetId) + 1>>
       IN  /\ calls' = Upd(calls, key, NewCall)
           /\ conns' = Upd(conns, key, NewConn)
           /\ peers' = [peers EXCEPT ![m] =
                  addPeer(@, targetId,
                          [displayName |-> "Appel en cours...",
                           mediaCall |-> key, dataConn |-> key])]
    /\ viewState' = [viewState EXCEPT ![m] = "room"]
    /\ isWaitingForHost' = [isWaitingForHost EXCEPT ![m] = TRUE]
    /\ timers' = [timers EXCEPT ![m] = Tail(@)]
    /\ UNCHANGED <<online, roomCapacity, incomingCall, peerAnalysers,
                   pinnedView, local, left, deadSends, refused>>
    /\ UNCHANGED <<activity, chatHistory>>

\* ------------------------------------------------ incoming channels -----
\* faulty variant: the ceiling taken as the capacity itself
RoomFullAtCapacity(m) == Cardinality(DOMAIN peersRef(m)) >= roomCapacityRef(m)

RoomFull(m) == Cardinality(DOMAIN peersRef(m)) >= roomCapacityRef(m) - 1

\* metadata the initiator attached to its call and data connection
Meta(key) ==
    IF Initiator(key) \in online
    THEN [displayName |-> local[Initiator(key)].displayName,
          avatar |-> local[Initiator(key)].avatar]
    ELSE [displayName |-> "", avatar |-> "none"]

NameOr(name, fallback) == IF name = "" THEN fallback ELSE name

handleIncomingConnection(key) ==
    /\ key \in DOMAIN conns
    /\ conns[key].tgt = "offered"
    /\ Target(key) \in online
    /\ LET m == Target(key)
           currentPeerIds == DOMAIN peersRef(m)
       IN  IF RoomFull(m)
           THEN /\ conns' = CloseConn(conns, key, m)
                /\ refused' = refused \cup {<<"conn", key>>}
                /\ UNCHANGED <<peers, timers>>
           ELSE /\ conns' = [conns EXCEPT ![key].tgt = "adopted"]
                /\ UNCHANGED refused
                /\ peers' = [peers EXCEPT ![m] =
                       addPeer(@, Initiator(key),
                               [displayName |-> NameOr(Meta(key).displayName, "Ami"),
                                avatar |-> Meta(key).avatar,
                                dataConn |-> key])]
                /\ timers' = [timers EXCEPT ![m] =
                       IF currentPeerIds # {}
                       THEN Append(@, [kind |-> "peer-list", conn |-> key,
                                       peers |-> currentPeerIds])
                       ELSE @]
    /\ UNCHANGED <<online, viewState, roomCapacity, incomingCall,
                   peerAnalysers, pinnedView, local, calls, left, deadSends,
                   isWaitingForHost>>
    /\ UNCHANGED <<activity, chatHistory>>

handleIncomingCall(key) ==
    /\ key \in DOMAIN calls
    /\ calls[key].tgt = "offered"
    /\ Target(key) \in online
    /\ LET m == Target(key)
       IN  IF RoomFull(m)
           THEN /\ calls' = CloseCall(calls, key, m)
                /\ refused' = refused \cup {<<"call", key>>}
                /\ UNCHANGED incomingCall
           ELSE /\ calls' = [calls EXCEPT ![key].tgt = "ringing"]
                /\ incomingCall' = [incomingCall EXCEPT ![m] = key]
                /\ UNCHANGED refused
    /\ UNCHANGED <<online, viewState, roomCapacity, peers, peerAnalysers,
                   pinnedView, local, timers, conns, left, deadSends,
                   isWaitingForHost>>
    /\ UNCHANGED <<activity, chatHistory>>

\* the delayed conn.send of the peer list, with no look at conn.open: on a
\* connection that is not open the transport carries nothing and emits
\* 'error' on it, which the handler wired at adoption answers with
\* removePeer(remoteId)
PeerListTimeout(m) ==
    /\ timers[m] # <<>>
    /\ Head(timers[m]).kind = "peer-list"
    /\ LET key == Head(timers[m]).conn
           msg == PeerListMsg(Head(timers[m]).peers)
       IN  /\ deadSends' = deadSends \cup DeadSend(conns, key, m, msg)
           /\ IF IsOpen(conns, key, m)
              THEN /\ conns' = Send(conns, key, m, msg)
                   /\ UNCHANGED <<peers, calls, peerAnalysers, pinnedView,
                                  isWaitingForHost>>
              ELSE removePeer(m, Initiator(key), calls, conns)
    /\ timers' = [timers EXCEPT ![m] = Tail(@)]
    /\ UNCHANGED <<online, viewState, roomCapacity, incomingCall, local, left,
                   refused>>
    /\ UNCHANGED <<activity, chatHistory>>

\* the room screen, with its controls, tiles and call prompt, is rendered
InRoom(m) == viewState[m] = "room" /\ ~isWaitingForHost[m]

acceptCall(m) ==
    /\ m \in online
    /\ InRoom(m)
    /\ incomingCall[m] # NoChan
    /\ LET key == incomingCall[m]
       IN  /\ calls' = [calls EXCEPT ![key].tgt =
                           IF @ = "ringing" THEN "answered" ELSE @]
           /\ peers' = [peers EXCEPT ![m] =
                  addPeer(@, Initiator(key),
                          [displayName |-> NameOr(Meta(key).displayName, "Ami"),
                           avatar |-> Meta(key).avatar,
                           mediaCall |-> key])]
    /\ incomingCall' = [incomingCall EXCEPT ![m] = NoChan]
    /\ UNCHANGED <<online, viewState, roomCapacity, peerAnalysers, pinnedView,
                   local, timers, conns, left, deadSends, refused, isWaitingForHost>>
    /\ UNCHANGED <<activity, chatHistory>>

rejectCall(m) ==
    /\ m \in online
    /\ InRoom(m)
    /\ incomingCall[m] # NoChan
    /\ calls' = CloseCall(calls, incomingCall[m], m)
    /\ incomingCall' = [incomingCall EXCEPT ![m] = NoChan]
    /\ UNCHANGED <<online, viewState, roomCapacity, peers, peerAnalysers,
                   pinnedView, local, timers, conns, left, deadSends, refused, isWaitingForHost>>
    /\ UNCHANGED <<activity, chatHistory>>

\* ---------------------------------------------- data connection events --
\* faulty variant: the profile goes out before the status
DataOpenProfileFirst(key, end) ==
    /\ key \in DOMAIN conns
    /\ Owner(key, end) \in online
    /\ IF end = "ini"
       THEN conns[key].ini = "connecting" /\ conns[key].tgt \in {"adopted", "open"}
       ELSE conns[key].tgt = "adopted" /\ conns[key].ini \in {"connecting", "open"}
    /\ LET m == Owner(key, end)
           opened == [conns EXCEPT ![key][end] = "open"]
       IN  conns' = Send(Send(opened, key, m, ProfileMsg(m)), key, m, StatusMsg(m))
    /\ UNCHANGED <<online, viewState, roomCapacity, peers, incomingCall,
                   peerAnalysers, pinnedView, local, timers, calls, left,
                   deadSends, refused, isWaitingForHost>>
    /\ UNCHANGED <<activity, chatHistory>>

\* 'open' on one end: the handler sends the status, then the profile
DataOpen(key, end) ==
    /\ key \in DOMAIN conns
    /\ Owner(key, end) \in online
    /\ IF end = "ini"
       THEN conns[key].ini = "connecting" /\ conns[key].tgt \in {"adopted", "open"}
       ELSE conns[key].tgt = "adopted" /\ conns[key].ini \in {"connecting", "open"}
    /\ LET m == Owner(key, end)
           opened == [conns EXCEPT ![key][end] = "open"]
       IN  conns' = Send(Send(opened, key, m, StatusMsg(m)), key, m, ProfileMsg(m))
    /\ UNCHANGED <<online, viewState, roomCapacity, peers, incomingCall,
                   peerAnalysers, pinnedView, local, timers, calls, left,
                   deadSends, refused, isWaitingForHost>>
    /\ UNCHANGED <<activity, chatHistory>>

\* faulty variant: a connection attempt for every listed id
PeerListTargetsAll(m, end, ids) == ids

\* the ids of a received peer list for which connectToPeer goes through
PeerListTargets(m, end, ids) ==
    {pid \in ids : /\ pid # ClosurePeerId(m, end)
                   /\ pid \notin DOMAIN peersRef(m)
                   /\ connectToPeerPasses(m, pid, end)}

TimersFor(order) == [i \in DOMAIN order |-> ConnectTimer(order[i])]

\* faulty variant: whatever is not known is shown as a chat message
handleNetworkMessageChatAll(ch, senderId, data) ==
    IF data.type \in {"status", "profile-update", "peer-list", "activity"}
    THEN ch
    ELSE Append(ch, [sender |-> senderId, senderName |-> senderId,
                     text |-> data.type])

\* the chat panel after handleNetworkMessage: 'chat' and 'file-share'
handleNetworkMessageChat(ch, senderId, data) ==
    IF data.type = "chat"
    THEN Append(ch, [sender |-> senderId, senderName |-> data.senderName,
                     text |-> data.text])
    ELSE IF data.type = "file-share"
    THEN Append(ch, [sender |-> senderId, senderName |-> data.senderName,
                     image |-> data.file])
    ELSE ch

handleNetworkMessagePeers(pm, senderId, data) ==
    IF data.type = "status"
    THEN addPeer(pm, senderId,
                 [status |-> [muted |-> data.muted, deafened |-> data.deafened,
                              videoEnabled |-> data.videoEnabled,
                              isScreenSharing |-> data.isScreenSharing],
                  currentActivity |-> data.currentActivity])
    ELSE IF data.type = "profile-update"
    THEN addPeer(pm, senderId,
                 [displayName |-> NameOr(data.displayName, "Utilisateur"),
                  avatar |-> data.avatar])
    ELSE pm

\* the answer to a sync-request: the whole history, page after page in the
\* order of the Map, line by line (App.tsx) or one batch for each page that
\* holds lines (part_001)
RECURSIVE SyncMsgs(_, _)
SyncMsgs(h, order) ==
    IF order = <<>> THEN <<>>
    ELSE LET page == Head(order)
             lines == h[page]
         IN  (IF revision = "App.tsx"
              THEN [i \in DOMAIN lines |->
                      WbMsg("draw", [drawData |-> lines[i], pageIndex |-> page])]
              ELSE IF lines # <<>>
              THEN <<WbMsg("draw-batch",
                           [drawBatch |-> lines, pageIndex |-> page])>>
              ELSE <<>>)
             \o SyncMsgs(h, Tail(order))

RECURSIVE SendAll(_, _, _, _)
SendAll(cs, key, m, msgs) ==
    IF msgs = <<>> THEN cs
    ELSE SendAll(Send(cs, key, m, Head(msgs)), key, m, Tail(msgs))

handleYoutubeMessage(m, data, cs) ==
    /\ conns' = cs
    /\ IF data.action = "sync-state" /\ player[m].exists
       THEN /\ isRemoteUpdate' = [isRemoteUpdate EXCEPT ![m] = TRUE]
            /\ player' = [player EXCEPT ![m] = ApplySync(@, data.data)]
            /\ guardTimers' = [guardTimers EXCEPT ![m] = @ + 1]
            /\ UNCHANGED <<youtubeQueue, currentVideo>>
       ELSE /\ UNCHANGED <<isRemoteUpdate, guardTimers>>
            /\ youtubeQueue' =
                  IF data.action = "add-queue"
                  THEN [youtubeQueue EXCEPT ![m] = Append(@, data.data.queueItem)]
                  ELSE IF data.action = "remove-queue"
                  THEN [youtubeQueue EXCEPT ![m] = Without(@, data.data.videoId)]
                  ELSE IF data.action = "update-queue"
                  THEN [youtubeQueue EXCEPT ![m] = data.data.queue]
                  ELSE youtubeQueue
            /\ IF data.action = "play-queue"
               THEN /\ currentVideo' = [currentVideo EXCEPT
                                           ![m] = data.data.queueItem]
                    /\ player' = [player EXCEPT
                          ![m] = LoadVideo(@, data.data.queueItem.videoId)]
               ELSE UNCHANGED <<currentVideo, player>>
    /\ UNCHANGED <<revision, activityView, wbPageIndex, wbHistory, canvas,
                   wbDrawingQueue, pendingAdds, now, acts>>

handleWhiteboardMessage(m, page0, senderId, data, cs) ==
    /\ IF data.action \in {"draw", "draw-batch"}
       THEN LET page == data.data.pageIndex
                lines == IF data.action = "draw" THEN <<data.data.drawData>>
                         ELSE IF revision = "part_001" THEN data.data.drawBatch
                         ELSE <<>>
            IN  /\ wbHistory' = [wbHistory EXCEPT
                       ![m] = IF lines = <<>> THEN @ ELSE PushAll(@, page, lines)]
                /\ canvas' = [canvas EXCEPT
                       ![m] = IF page = page0 /\ HasCanvas(m)
                              THEN DrawAll(lines, @) ELSE @]
                /\ UNCHANGED wbPageIndex
       ELSE IF data.action = "clear"
       THEN /\ canvas' = [canvas EXCEPT
                   ![m] = IF HasCanvas(m) THEN BlankCanvas ELSE @]
            /\ wbHistory' = [wbHistory EXCEPT ![m] = Upd(@, page0, <<>>)]
            /\ UNCHANGED wbPageIndex
       ELSE IF data.action = "set-page"
       THEN /\ wbPageIndex' = [wbPageIndex EXCEPT ![m] = data.data.pageIndex]
            /\ canvas' = [canvas EXCEPT
                   ![m] = Redraw(activityView[m], pinnedView[m], wbHistory[m],
                                 data.data.pageIndex, @)]
            /\ UNCHANGED wbHistory
       ELSE UNCHANGED <<wbPageIndex, wbHistory, canvas>>
    /\ IF /\ data.action = "sync-request"
          /\ senderId \in DOMAIN peersRef(m)
          /\ peersRef(m)[senderId].dataConn # NoChan
       THEN \E order \in Orderings(DOMAIN wbHistory[m]) :
               conns' = SendAll(cs, peersRef(m)[senderId].dataConn, m,
                                SyncMsgs(wbHistory[m], order))
       ELSE conns' = cs
    /\ UNCHANGED <<revision, activityView, wbDrawingQueue, youtubeQueue,
                   currentVideo, player, isRemoteUpdate, guardTimers,
                   pendingAdds, now, acts>>

\* handleActivityMessage(senderId, data), in the closure of the render that
\* registered the handlers of the connection; cs is what the connections
\* are once the message is taken
handleActivityMessage(m, end, senderId, data, cs) ==
    IF data.activityType = "youtube" /\ ClosureActivityView(m, end) = "youtube"
    THEN handleYoutubeMessage(m, data, cs)
    ELSE IF /\ data.activityType = "whiteboard"
            /\ ClosureActivityView(m, end) = "whiteboard"
    THEN handleWhiteboardMessage(m, ClosureWbPageIndex(m, end), senderId,
                                 data, cs)
    ELSE conns' = cs /\ UNCHANGED activity

\* 'data' on one end: handleNetworkMessage(remoteId, data)
DataReceive(key, end) ==
    /\ key \in DOMAIN conns
    /\ Owner(key, end) \in online
    /\ conns[key][end] = "open"
    /\ conns[key][QueueTo(end)] # <<>>
    /\ LET m == Owner(key, end)
           senderId == RemoteOf(key, end)
           data == Head(conns[key][QueueTo(end)])
       IN  /\ IF data.type = "activity"
              THEN handleActivityMessage(m, end, senderId, data,
                      [conns EXCEPT ![key][QueueTo(end)] = Tail(@)])
              ELSE /\ conns' = [conns EXCEPT ![key][QueueTo(end)] = Tail(@)]
                   /\ UNCHANGED activity
           /\ peers' = [peers EXCEPT ![m] =
                            handleNetworkMessagePeers(@, senderId, data)]
           /\ chatHistory' = [chatHistory EXCEPT ![m] =
                                  handleNetworkMessageChat(@, senderId, data)]
           /\ IF data.type = "peer-list"
              THEN LET targets == PeerListTargets(m, end, data.peers)
                   IN  /\ Cardinality(targets) <= left.pairs
                       /\ \E order \in Orderings(targets) :
                             timers' = [timers EXCEPT ![m] = @ \o TimersFor(order)]
                       /\ left' = [left EXCEPT !.pairs = @ - Cardinality(targets)]
              ELSE UNCHANGED <<timers, left>>
    /\ UNCHANGED <<online, viewState, roomCapacity, incomingCall,
                   peerAnalysers, pinnedView, local, calls, deadSends, refused, isWaitingForHost>>

\* ---------------------------------------------------- media events ------
\* 'stream' on one end of an answered call
CallStream(key, end) ==
    /\ key \in DOMAIN calls
    /\ Owner(key, end) \in online
    /\ calls[key].ini = "calling"
    /\ calls[key].tgt = "answered"
    /\ ~calls[key][IF end = "ini" THEN "iniStream" ELSE "tgtStream"]
    /\ LET m == Owner(key, end)
           remoteId == RemoteOf(key, end)
       IN  /\ calls' = [calls EXCEPT
                  ![key][IF end = "ini" THEN "iniStream" ELSE "tgtStream"] = TRUE]
           /\ peers' = [peers EXCEPT ![m] = addPeer(@, remoteId, [stream |-> TRUE])]
           /\ peerAnalysers' = [peerAnalysers EXCEPT ![m] = @ \cup {remoteId}]
           /\ isWaitingForHost' = [isWaitingForHost EXCEPT ![m] = FALSE]
    /\ UNCHANGED <<online, viewState, roomCapacity, incomingCall, pinnedView,
                   local, timers, conns, left, deadSends, refused>>
    /\ UNCHANGED <<activity, chatHistory>>

\* ---------------------------------------------------- close / error -----
Wired(kind, key, end) ==
    IF kind = "call" THEN key \in DOMAIN calls /\ CallWired(key, end)
    ELSE key \in DOMAIN conns /\ ConnWired(key, end)

Chans(kind) == IF kind = "call" THEN calls ELSE conns

\* the channels after a 'close' event on the end of key held by its owner
AfterClose(kind, which, key, end) ==
    IF kind # which THEN Chans(which)
    ELSE IF kind = "call" THEN CloseCall(calls, key, Owner(key, end))
    ELSE CloseConn(conns, key, Owner(key, end))

\* 'close' on one end after the other end was closed
RemoteClose(kind, key, end) ==
    /\ Wired(kind, key, end)
    /\ Owner(key, end) \in online
    /\ Chans(kind)[key][OtherEnd(end)] = "closed"
    /\ removePeer(Owner(key, end), RemoteOf(key, end),
                  AfterClose(kind, "call", key, end),
                  AfterClose(kind, "conn", key, end))
    /\ UNCHANGED <<online, viewState, roomCapacity, incomingCall, local,
                   timers, left, deadSends, refused>>
    /\ UNCHANGED <<activity, chatHistory>>

\* transport failure: a 'close' or an 'error' event out of the blue
TransportFailure(kind, key, end, event) ==
    /\ left.faults > 0
    /\ Wired(kind, key, end)
    /\ Owner(key, end) \in online
    /\ IF event = "close"
       THEN removePeer(Owner(key, end), RemoteOf(key, end),
                       AfterClose(kind, "call", key, end),
                       AfterClose(kind, "conn", key, end))
       ELSE removePeer(Owner(key, end), RemoteOf(key, end), calls, conns)
    /\ left' = Spend("faults")
    /\ UNCHANGED <<online, viewState, roomCapacity, incomingCall, local,
                   timers, deadSends, refused>>
    /\ UNCHANGED <<activity, chatHistory>>

\* ---------------------------------------------------- user: room --------
\* every peer of the mirrored map whose data connection exists and is open
broadcastTargets(cs, m) ==
    {k \in DOMAIN cs :
        /\ \E id \in DOMAIN peersRef(m) : peersRef(m)[id].dataConn = k
        /\ IsOpen(cs, k, m)}

broadcastData(cs, m, msg) ==
    [k \in DOMAIN cs |->
        IF k \in broadcastTargets(cs, m) THEN Send(cs, k, m, msg)[k] ELSE cs[k]]

toggleMute(m) ==
    /\ m \in online
    /\ InRoom(m)
    /\ left.toggles > 0
    /\ local' = [local EXCEPT ![m].muted = ~@]
    /\ conns' = broadcastData(conns, m,
                    [StatusMsg(m) EXCEPT !.muted = ~local[m].muted])
    /\ left' = Spend("toggles")
    /\ UNCHANGED <<online, viewState, roomCapacity, peers, incomingCall,
                   peerAnalysers, pinnedView, timers, calls, deadSends, refused, isWaitingForHost>>
    /\ UNCHANGED <<activity, chatHistory>>

toggleDeafen(m) ==
    /\ m \in online
    /\ InRoom(m)
    /\ left.toggles > 0
    /\ local' = [local EXCEPT ![m].deafened = ~@]
    /\ conns' = broadcastData(conns, m,
                    [StatusMsg(m) EXCEPT !.deafened = ~local[m].deafened])
    /\ left' = Spend("toggles")
    /\ UNCHANGED <<online, viewState, roomCapacity, peers, incomingCall,
                   peerAnalysers, pinnedView, timers, calls, deadSends, refused, isWaitingForHost>>
    /\ UNCHANGED <<activity, chatHistory>>

\* toggleVideo, the camera answering at once: the first click fetches a
\* track, which comes enabled, and every click flips the track and shows
\* and broadcasts what the track then is
toggleVideo(m) ==
    /\ m \in online
    /\ InRoom(m)
    /\ left.toggles > 0
    /\ LET newState == local[m].videoTrack = "off"
       IN  /\ local' = [local EXCEPT
                  ![m].videoTrack = IF newState THEN "on" ELSE "off",
                  ![m].videoEnabled = newState]
           /\ conns' = broadcastData(conns, m,
                           [StatusMsg(m) EXCEPT !.videoEnabled = newState])
    /\ left' = Spend("toggles")
    /\ UNCHANGED <<online, viewState, roomCapacity, peers, incomingCall,
                   peerAnalysers, pinnedView, timers, calls, deadSends, refused, isWaitingForHost>>
    /\ UNCHANGED <<activity, chatHistory>>

\* toggleScreenShare, the screen picker or the camera answering at once
toggleScreenShare(m) ==
    /\ m \in online
    /\ InRoom(m)
    /\ left.toggles > 0
    /\ IF local[m].isScreenSharing
       THEN /\ local' = [local EXCEPT
                   ![m].isScreenSharing = FALSE,
                   ![m].videoTrack = IF local[m].videoEnabled THEN "on"
                                     ELSE "off"]
            /\ conns' = broadcastData(conns, m,
                            [StatusMsg(m) EXCEPT !.isScreenSharing = FALSE])
       ELSE /\ local' = [local EXCEPT ![m].isScreenSharing = TRUE]
            /\ conns' = broadcastData(conns, m,
                            [StatusMsg(m) EXCEPT !.videoEnabled = TRUE,
                                                 !.isScreenSharing = TRUE])
    /\ left' = Spend("toggles")
    /\ UNCHANGED <<online, viewState, roomCapacity, peers, incomingCall,
                   peerAnalysers, pinnedView, timers, calls, deadSends, refused, isWaitingForHost>>
    /\ UNCHANGED <<activity, chatHistory>>

\* double click on the tile of a peer
TogglePin(m, id) ==
    /\ m \in online
    /\ InRoom(m)
    /\ id \in DOMAIN peers[m]
    /\ left.pins > 0
    /\ pinnedView' = [pinnedView EXCEPT ![m] = IF @ = id THEN "none" ELSE id]
    /\ left' = Spend("pins")
    /\ UNCHANGED <<online, viewState, roomCapacity, peers, incomingCall,
                   peerAnalysers, local, timers, calls, conns, deadSends, refused, isWaitingForHost>>
    /\ UNCHANGED <<activity, chatHistory>>

\* ---------------------------------------------------- leaveRoom ---------
\* faulty variant: the channels are left open
CloseAllOfNone(cs, m, field) == cs

\* close() on the end m holds of every channel of cs that field of an
\* entry of its mirrored peer map names
CloseAllOf(cs, m, field) ==
    [key \in DOMAIN cs |->
        IF \E id \in DOMAIN peersRef(m) : peersRef(m)[id][field] = key
        THEN IF field = "dataConn" THEN CloseConn(cs, key, m)[key]
             ELSE CloseCall(cs, key, m)[key]
        ELSE cs[key]]

\* the hang-up button of the room, or 'Annuler' while waiting for the host
leaveRoom(m) ==
    /\ m \in online
    /\ viewState[m] = "room"
    /\ left.leaves > 0
    /\ calls' = CloseAllOf(calls, m, "mediaCall")
    /\ conns' = CloseAllOf(conns, m, "dataConn")
    /\ timers' = [timers EXCEPT ![m] = Append(@, [kind |-> "leave"])]
    /\ left' = Spend("leaves")
    /\ UNCHANGED <<online, viewState, roomCapacity, peers, incomingCall,
                   peerAnalysers, pinnedView, local, deadSends, refused,
                   isWaitingForHost>>
    /\ UNCHANGED <<activity, chatHistory>>

\* the reset leaveRoom delays by 300 ms; the timers of 500 ms that were
\* started less than 200 ms before it are still pending when it runs
LeaveTimeout(m) ==
    /\ \E i \in DOMAIN timers[m] :
          /\ timers[m][i].kind = "leave"
          /\ \A j \in 1..(i - 1) : timers[m][j].kind # "leave"
          /\ timers' = [timers EXCEPT ![m] =
                           SubSeq(@, 1, i - 1) \o SubSeq(@, i + 1, Len(@))]
    /\ peers' = [peers EXCEPT ![m] = <<>>]
    /\ peerAnalysers' = [peerAnalysers EXCEPT ![m] = {}]
    /\ activityView' = [activityView EXCEPT ![m] = "none"]
    /\ pinnedView' = [pinnedView EXCEPT ![m] = "none"]
    /\ viewState' = [viewState EXCEPT ![m] = "lobby"]
    /\ isWaitingForHost' = [isWaitingForHost EXCEPT ![m] = FALSE]
    /\ canvas' = [canvas EXCEPT ![m] = BlankCanvas]
    /\ UNCHANGED <<online, roomCapacity, incomingCall, local, calls, conns,
                   left, deadSends, refused, chatHistory>>
    /\ UNCHANGED <<youtubeQueue, currentVideo, player, isRemoteUpdate,
                   guardTimers, pendingAdds, now, revision, wbPageIndex,
                   wbHistory, wbDrawingQueue, acts>>

\* ------------------------------------------------------------ Next ------
Ends == {"ini", "tgt"}

Next ==
    \/ \E m \in Ids, c \in Capacities : StartRoomTransition(m, c)
    \/ \E m \in Ids : RoomTimeout(m)
    \/ \E m \in Ids, t \in Ids : SubmitJoin(m, t)
    \/ \E m \in Ids : ConnectTimeout(m)
    \/ \E key \in DOMAIN conns : handleIncomingConnection(key)
    \/ \E key \in DOMAIN calls : handleIncomingCall(key)
    \/ \E m \in Ids : PeerListTimeout(m)
    \/ \E m \in Ids : acceptCall(m)
    \/ \E m \in Ids : rejectCall(m)
    \/ \E key \in DOMAIN conns, end \in Ends : DataOpen(key, end)
    \/ \E key \in DOMAIN conns, end \in Ends : DataReceive(key, end)
    \/ \E key \in DOMAIN calls, end \in Ends : CallStream(key, end)
    \/ \E kind \in {"call", "conn"}, key \in DOMAIN calls \cup DOMAIN conns,
          end \in Ends : RemoteClose(kind, key, end)
    \/ \E kind \in {"call", "conn"}, key \in DOMAIN calls \cup DOMAIN conns,
          end \in Ends, event \in {"close", "error"} :
          TransportFailure(kind, key, end, event)
    \/ \E m \in Ids : toggleMute(m)
    \/ \E m \in Ids : toggleDeafen(m)
    \/ \E m \in Ids, id \in Ids : TogglePin(m, id)

Spec == Init /\ [][Next]_vars

\* ----------------------------------------------- mesh discovery runs ----
\* A has joined the room of B and the pair has settled: call answered and
\* streaming both ways, data connection open, status and profile exchanged
FirstPair == <<"A", "B", 1>>

Settled(id) ==
    [NewPeer(id) EXCEPT !.displayName = id, !.stream = TRUE,
                        !.mediaCall = FirstPair, !.dataConn = FirstPair]

Established ==
    /\ viewState["A"] = "room" /\ viewState["B"] = "room"
    /\ peers["A"] = Upd(<<>>, "B", Settled("B"))
    /\ peers["B"] = Upd(<<>>, "A", Settled("A"))
    /\ peerAnalysers["A"] = {"B"} /\ peerAnalysers["B"] = {"A"}
    /\ incomingCall["A"] = NoChan /\ incomingCall["B"] = NoChan
    /\ pinnedView["A"] = "none" /\ pinnedView["B"] = "none"
    /\ local["A"] = LocalInit("A") /\ local["B"] = LocalInit("B")
    /\ timers["A"] = <<>> /\ timers["B"] = <<>>
    /\ calls = Upd(<<>>, FirstPair,
                   [NewCall EXCEPT !.tgt = "answered", !.iniStream = TRUE,
                                   !.tgtStream = TRUE])
    /\ conns = Upd(<<>>, FirstPair,
                   [NewConn EXCEPT !.ini = "open", !.tgt = "open"])
    /\ roomCapacity["A"] = DefaultCapacity

\* the settled pair, a room of B of any capacity, and C in the lobby
InitDiscoveryWith(meshBudget) ==
    /\ online = {"A", "B", "C"}
    /\ viewState = [m \in Ids |-> IF m \in {"A", "B"} THEN "room" ELSE "lobby"]
    /\ \E capacity \in Capacities :
          roomCapacity = [m \in Ids |-> IF m = "B" THEN capacity
                                        ELSE DefaultCapacity]
    /\ peers = [m \in Ids |-> IF m = "A" THEN Upd(<<>>, "B", Settled("B"))
                              ELSE IF m = "B" THEN Upd(<<>>, "A", Settled("A"))
                              ELSE <<>>]
    /\ incomingCall = [m \in Ids |-> NoChan]
    /\ peerAnalysers = [m \in Ids |-> IF m = "A" THEN {"B"}
                                      ELSE IF m = "B" THEN {"A"} ELSE {}]
    /\ pinnedView = [m \in Ids |-> "none"]
    /\ local = [m \in Ids |-> LocalInit(m)]
    /\ timers = [m \in Ids |-> <<>>]
    /\ left = meshBudget
    /\ deadSends = {}
    /\ refused = {}
    /\ isWaitingForHost = [m \in Ids |-> FALSE]
    /\ ActivityInit("App.tsx", NoActs)
    /\ Established

InitDiscovery ==
    InitDiscoveryWith(Budget(MaxJoins - 1, MaxPairs + 2, 0, 0, 0, 0, 0))

Lifecycle ==
    \/ \E m \in Ids, t \in Ids : SubmitJoin(m, t)
    \/ \E m \in Ids : ConnectTimeout(m)
    \/ \E key \in DOMAIN conns : handleIncomingConnection(key)
    \/ \E key \in DOMAIN calls : handleIncomingCall(key)
    \/ \E m \in Ids : PeerListTimeout(m)
    \/ \E key \in DOMAIN conns, end \in Ends : DataOpen(key, end)
    \/ \E key \in DOMAIN conns, end \in Ends : DataReceive(key, end)
    \/ \E kind \in {"call", "conn"}, key \in DOMAIN calls \cup DOMAIN conns,
          end \in Ends : RemoteClose(kind, key, end)

NextDiscovery ==
    \/ Lifecycle
    \/ \E m \in Ids : acceptCall(m)
    \/ \E m \in Ids : rejectCall(m)
    \/ \E key \in DOMAIN calls, end \in Ends : CallStream(key, end)

SpecDiscovery == InitDiscovery /\ [][NextDiscovery]_vars

\* ----------------------------------------------------- admission runs ---
\* as the discovery runs, the join form being submitted up to twice
InitAdmission ==
    InitDiscoveryWith(Budget(MaxJoins, MaxPairs + 1, 0, 0, 0, 0, 0))

SpecAdmission == InitAdmission /\ [][NextDiscovery]_vars

\* ------------------------------------------------- crowded lobby runs ---
\* peers that are not members of the explored rooms offer a data
\* connection each to a member that is still in the lobby
ForeignOffer(g, m) ==
    /\ g \notin online
    /\ m \in online
    /\ left.foreign > 0
    /\ Opened(g, m) = 0
    /\ conns' = Upd(conns, <<g, m, 1>>, NewConn)
    /\ left' = Spend("foreign")
    /\ UNCHANGED <<online, viewState, roomCapacity, peers, incomingCall,
                   peerAnalysers, pinnedView, local, timers, calls, deadSends, refused, isWaitingForHost>>
    /\ UNCHANGED <<activity, chatHistory>>

InitCeiling ==
    InitWith({"A", "B"}, Budget(MaxJoins - 1, MaxPairs, 0, 0, 0, 0, MaxForeign))

NextCeiling ==
    \/ Lifecycle
    \/ \E g \in Ids, m \in {"A"} : ForeignOffer(g, m)

SpecCeiling == InitCeiling /\ [][NextCeiling]_vars

\* ------------------------------------------------- crowded room runs ----
\* C joins the room of B while a peer from outside offers B a data
\* connection
InitCrowd ==
    InitDiscoveryWith(Budget(MaxJoins - 1, MaxPairs + 1, 0, 0, 0, 0,
                             MaxForeign - 2))

NextCrowd ==
    \/ NextDiscovery
    \/ \E g \in Ids, m \in {"B"} : ForeignOffer(g, m)

SpecCrowd == InitCrowd /\ [][NextCrowd]_vars

\* ------------------------------------------------ user: whiteboard ------
\* what the activity actions leave alone of the mesh
meshRest == <<online, viewState, roomCapacity, peers, incomingCall,
              peerAnalysers, timers, calls, left, deadSends, refused,
              isWaitingForHost, chatHistory>>

ytVars == <<youtubeQueue, currentVideo, player, isRemoteUpdate, guardTimers,
           pendingAdds, now>>

SpendAct(what) == [acts EXCEPT ![what] = @ - 1]

\* the strokes the explored users draw: a red line over the whole row, a
\* blue dot on its right end, the eraser on its left end
Strokes ==
    {[prevX |-> 0, x |-> 1, color |-> "red", isEraser |-> FALSE],
     [prevX |-> 1, x |-> 1, color |-> "blue", isEraser |-> FALSE],
     [prevX |-> 0, x |-> 0, color |-> "red", isEraser |-> TRUE]}

\* startWhiteboard(), and then the messages the click goes on to broadcast
StartWhiteboardThen(m, msgs) ==
    /\ activityView' = [activityView EXCEPT ![m] = "whiteboard"]
    /\ pinnedView' = [pinnedView EXCEPT ![m] = "activity"]
    /\ local' = [local EXCEPT ![m].currentActivity = "whiteboard"]
    /\ wbHistory' = [wbHistory EXCEPT
                        ![m] = IF 0 \in DOMAIN @ THEN @ ELSE Upd(@, 0, <<>>)]
    /\ canvas' = [canvas EXCEPT
                     ![m] = Redraw("whiteboard", "activity", wbHistory[m],
                                   wbPageIndex[m], @)]
    /\ conns' = LET status == [StatusMsg(m) EXCEPT
                                 !.currentActivity = "whiteboard"]
                    sent == broadcastData(conns, m, status)
                IN  IF msgs = <<>> THEN sent
                    ELSE broadcastData(sent, m, Head(msgs))
    /\ acts' = SpendAct("starts")
    /\ UNCHANGED <<meshRest, ytVars, revision, wbPageIndex, wbDrawingQueue>>

\* the whiteboard button of the activity menu
startWhiteboard(m) ==
    /\ m \in online /\ InRoom(m)
    /\ acts.starts > 0
    /\ StartWhiteboardThen(m, <<>>)

\* 'Rejoindre' on the tile of a peer that draws
JoinWhiteboard(m, id) ==
    /\ m \in online /\ InRoom(m)
    /\ acts.starts > 0
    /\ id \in DOMAIN peers[m]
    /\ peers[m][id].currentActivity = "whiteboard"
    /\ activityView[m] # "whiteboard"
    /\ pinnedView[m] # "activity"
    /\ StartWhiteboardThen(m, <<WbMsg("sync-request", <<>>)>>)

\* the cross of the activity panel
CloseActivity(m) ==
    /\ m \in online /\ InRoom(m)
    /\ acts.starts > 0
    /\ activityView[m] # "none" /\ pinnedView[m] = "activity"
    /\ activityView' = [activityView EXCEPT ![m] = "none"]
    /\ pinnedView' = [pinnedView EXCEPT ![m] = "none"]
    /\ local' = [local EXCEPT ![m].currentActivity = "none"]
    /\ canvas' = [canvas EXCEPT ![m] = BlankCanvas]
    /\ conns' = broadcastData(conns, m,
                    [StatusMsg(m) EXCEPT !.currentActivity = "none"])
    /\ acts' = SpendAct("starts")
    /\ UNCHANGED <<meshRest, ytVars, revision, wbPageIndex, wbHistory,
                   wbDrawingQueue>>

\* onMouseMove while drawing: render, store, and send (App.tsx) or enqueue
\* for the next tick (part_001)
onMouseMove(m, drawData) ==
    /\ m \in online /\ InRoom(m)
    /\ HasCanvas(m)
    /\ acts.draws > 0
    /\ canvas' = [canvas EXCEPT ![m] = drawOnCanvas(drawData, @)]
    /\ wbHistory' = [wbHistory EXCEPT
                        ![m] = PushAll(@, wbPageIndex[m], <<drawData>>)]
    /\ IF revision = "App.tsx"
       THEN /\ conns' = broadcastData(conns, m,
                           WbMsg("draw", [drawData |-> drawData,
                                          pageIndex |-> wbPageIndex[m]]))
            /\ UNCHANGED wbDrawingQueue
       ELSE /\ wbDrawingQueue' = [wbDrawingQueue EXCEPT
                                     ![m] = Append(@, drawData)]
            /\ UNCHANGED conns
    /\ acts' = SpendAct("draws")
    /\ UNCHANGED <<meshRest, ytVars, revision, activityView, pinnedView,
                   local, wbPageIndex>>

\* a tick that sends the queue and keeps it
SyncTickKeepsQueue(m) ==
    /\ m \in online
    /\ revision = "part_001"
    /\ wbDrawingQueue[m] # <<>>
    /\ conns' = broadcastData(conns, m,
                    WbMsg("draw-batch", [drawBatch |-> wbDrawingQueue[m],
                                         pageIndex |-> wbPageIndex[m]]))
    /\ UNCHANGED <<meshRest, ytVars, revision, activityView, pinnedView,
                   local, wbPageIndex, wbHistory, canvas, acts,
                   wbDrawingQueue>>

\* the 25 ms interval of part_001, when the queue holds something
SyncTick(m) ==
    /\ m \in online
    /\ revision = "part_001"
    /\ wbDrawingQueue[m] # <<>>
    /\ wbDrawingQueue' = [wbDrawingQueue EXCEPT ![m] = <<>>]
    /\ conns' = broadcastData(conns, m,
                    WbMsg("draw-batch", [drawBatch |-> wbDrawingQueue[m],
                                         pageIndex |-> wbPageIndex[m]]))
    /\ UNCHANGED <<meshRest, ytVars, revision, activityView, pinnedView,
                   local, wbPageIndex, wbHistory, canvas, acts>>

\* the clear button
ClearBoard(m) ==
    /\ m \in online /\ InRoom(m)
    /\ HasCanvas(m)
    /\ acts.clears > 0
    /\ canvas' = [canvas EXCEPT ![m] = BlankCanvas]
    /\ wbHistory' = [wbHistory EXCEPT ![m] = Upd(@, wbPageIndex[m], <<>>)]
    /\ conns' = broadcastData(conns, m, WbMsg("clear", <<>>))
    /\ acts' = SpendAct("clears")
    /\ UNCHANGED <<meshRest, ytVars, revision, activityView, pinnedView,
                   local, wbPageIndex, wbDrawingQueue>>

\* the page buttons: previous (never below the first page) and next
SetPage(m, newPage) ==
    /\ m \in online /\ InRoom(m)
    /\ HasCanvas(m)
    /\ acts.pages > 0
    /\ wbPageIndex' = [wbPageIndex EXCEPT ![m] = newPage]
    /\ canvas' = [canvas EXCEPT
                     ![m] = Redraw(activityView[m], pinnedView[m],
                                   wbHistory[m], newPage, @)]
    /\ conns' = broadcastData(conns, m,
                    WbMsg("set-page", [pageIndex |-> newPage]))
    /\ acts' = SpendAct("pages")
    /\ UNCHANGED <<meshRest, ytVars, revision, activityView, pinnedView,
                   local, wbHistory, wbDrawingQueue>>

Max(a, b) == IF a >= b THEN a ELSE b

PagePrevious(m) == SetPage(m, Max(0, wbPageIndex[m] - 1))

PageNext(m) == SetPage(m, wbPageIndex[m] + 1)

\* ---------------------------------------------------- user: youtube ---
wbVars == <<wbPageIndex, wbHistory, canvas, wbDrawingQueue>>

\* the YouTube panel is shown
Watches(m) == activityView[m] = "youtube" /\ pinnedView[m] = "activity"

\* the YouTube button of the activity menu
startYoutubeActivity(m) ==
    /\ m \in online /\ InRoom(m)
    /\ acts.starts > 0
    /\ activityView' = [activityView EXCEPT ![m] = "youtube"]
    /\ pinnedView' = [pinnedView EXCEPT ![m] = "activity"]
    /\ local' = [local EXCEPT ![m].currentActivity = "youtube"]
    /\ conns' = broadcastData(conns, m,
                    [StatusMsg(m) EXCEPT !.currentActivity = "youtube"])
    /\ acts' = SpendAct("starts")
    /\ UNCHANGED <<meshRest, ytVars, wbVars, revision>>

QueueItem(id, videoId, addedBy) ==
    [id |-> id, videoId |-> videoId, addedBy |-> addedBy]

\* new YT.Player(...), or loadVideoById on the player there is
PlayerAfterPlay(pl, videoId) ==
    IF pl.exists THEN LoadVideo(pl, videoId)
    ELSE [NoPlayer EXCEPT !.exists = TRUE, !.videoId = videoId]

\* playVideo(item): what it makes of the connections cs
playVideo(m, item, cs) ==
    /\ currentVideo' = [currentVideo EXCEPT ![m] = item]
    /\ conns' = broadcastData(cs, m, YtMsg("play-queue", [queueItem |-> item]))
    /\ player' = [player EXCEPT ![m] = PlayerAfterPlay(@, item.videoId)]

\* addToQueue up to its await: the render of the click fixes what the
\* auto-play test will read once the title has been fetched
AddClick(m, videoId) ==
    /\ m \in online /\ InRoom(m)
    /\ Watches(m)
    /\ acts.adds > 0
    /\ pendingAdds' = [pendingAdds EXCEPT ![m] =
           Append(@, [videoId |-> videoId,
                      currentVideo |-> currentVideo[m],
                      queueLength |-> Len(youtubeQueue[m])])]
    /\ acts' = SpendAct("adds")
    /\ UNCHANGED <<meshRest, wbVars, revision, activityView, pinnedView, local,
                   conns, youtubeQueue, currentVideo, player, isRemoteUpdate,
                   guardTimers, now>>

\* all of s but its i-th element
Drop(s, i) == SubSeq(s, 1, i - 1) \o SubSeq(s, i + 1, Len(s))

\* addToQueue from its await on: fetchVideoMeta has answered
AddResolve(m, i) ==
    /\ m \in online
    /\ i \in DOMAIN pendingAdds[m]
    /\ LET call == pendingAdds[m][i]
           newItem == QueueItem(now, call.videoId, m)
           sent == broadcastData(conns, m,
                       YtMsg("add-queue", [queueItem |-> newItem]))
       IN  /\ youtubeQueue' = [youtubeQueue EXCEPT ![m] = Append(@, newItem)]
           /\ IF call.currentVideo = NoItem /\ call.queueLength = 0
              THEN playVideo(m, newItem, sent)
              ELSE conns' = sent /\ UNCHANGED <<currentVideo, player>>
    /\ pendingAdds' = [pendingAdds EXCEPT ![m] = Drop(@, i)]
    /\ now' = now + 1
    /\ UNCHANGED <<meshRest, wbVars, revision, activityView, pinnedView, local,
                   isRemoteUpdate, guardTimers, acts>>

\* a click on an entry of the queue
PlayItem(m, i) ==
    /\ m \in online /\ InRoom(m)
    /\ Watches(m)
    /\ acts.events > 0
    /\ i \in DOMAIN youtubeQueue[m]
    /\ playVideo(m, youtubeQueue[m][i], conns)
    /\ acts' = SpendAct("events")
    /\ UNCHANGED <<meshRest, wbVars, revision, activityView, pinnedView, local,
                   youtubeQueue, isRemoteUpdate, guardTimers, pendingAdds, now>>

removeFromQueue(m, itemId) ==
    /\ m \in online /\ InRoom(m)
    /\ Watches(m)
    /\ acts.moves > 0
    /\ \E i \in DOMAIN youtubeQueue[m] : youtubeQueue[m][i].id = itemId
    /\ youtubeQueue' = [youtubeQueue EXCEPT ![m] = Without(@, itemId)]
    /\ conns' = broadcastData(conns, m,
                    YtMsg("remove-queue", [videoId |-> itemId]))
    /\ acts' = SpendAct("moves")
    /\ UNCHANGED <<meshRest, wbVars, revision, activityView, pinnedView, local,
                   currentVideo, player, isRemoteUpdate, guardTimers,
                   pendingAdds, now>>

\* the queue with the entries at i and j exchanged
\* what a read of an array position that holds nothing yields
UndefinedItem == [id |-> 0 - 1, videoId |-> "undefined", addedBy |-> "undefined"]

\* queue[i], positions counted from 1
ArrayGet(queue, i) == IF i \in DOMAIN queue THEN queue[i] ELSE UndefinedItem

\* queue[i] = v: an assignment past the end lengthens the array, one before
\* the first position sets a property and leaves the elements alone
ArraySet(queue, i, v) ==
    IF i < 1 THEN queue
    ELSE [k \in 1..(IF i > Len(queue) THEN i ELSE Len(queue)) |->
             IF k = i THEN v ELSE ArrayGet(queue, k)]

Swap(queue, i, j) ==
    ArraySet(ArraySet(queue, i, ArrayGet(queue, j)), j, ArrayGet(queue, i))

\* the queue after moveQueueItem(index, direction), index counted from 1
Moved(queue, index, direction) ==
    IF direction = "up" /\ index > 1 THEN Swap(queue, index, index - 1)
    ELSE IF direction = "down" /\ index < Len(queue)
    THEN Swap(queue, index, index + 1)
    ELSE queue

\* the arrows of a queue entry; the first has no 'up', the last no 'down'
moveQueueItem(m, index, direction) ==
    /\ m \in online /\ InRoom(m)
    /\ Watches(m)
    /\ acts.moves > 0
    /\ index \in DOMAIN youtubeQueue[m]
    /\ direction = "up" => index # 1
    /\ direction = "down" => index # Len(youtubeQueue[m])
    /\ youtubeQueue' = [youtubeQueue EXCEPT ![m] = Moved(@, index, direction)]
    /\ conns' = broadcastData(conns, m,
                    YtMsg("update-queue",
                          [queue |-> Moved(youtubeQueue[m], index, direction)]))
    /\ acts' = SpendAct("moves")
    /\ UNCHANGED <<meshRest, wbVars, revision, activityView, pinnedView, local,
                   currentVideo, player, isRemoteUpdate, guardTimers,
                   pendingAdds, now>>

PlayerStates == {PLAYING, PAUSED, BUFFERING, ENDED}

\* onStateChange(e): what it makes of the connections
onStateChange(m, state, time) ==
    IF isRemoteUpdate[m] THEN conns
    ELSE IF state \in {PLAYING, PAUSED, BUFFERING}
    THEN broadcastData(conns, m,
             YtMsg("sync-state", [playerState |-> state, currentTime |-> time]))
    ELSE conns

\* the viewer uses the controls of the embedded player, which then reports
\* its new state
PlayerEvent(m, state, time) ==
    /\ m \in online
    /\ Watches(m)
    /\ player[m].exists
    /\ acts.events > 0
    /\ player' = [player EXCEPT ![m].state = state, ![m].time = time]
    /\ conns' = onStateChange(m, state, time)
    /\ acts' = SpendAct("events")
    /\ UNCHANGED <<meshRest, wbVars, revision, activityView, pinnedView, local,
                   youtubeQueue, currentVideo, isRemoteUpdate, guardTimers,
                   pendingAdds, now>>

\* ------------------------------------------------------- user: chat ----
\* Enter in the chat input: broadcast, then show the message locally
SendChat(m, text) ==
    /\ m \in online /\ InRoom(m)
    /\ acts.chats > 0
    /\ conns' = broadcastData(conns, m,
                    [type |-> "chat", text |-> text, sender |-> m,
                     senderName |-> local[m].displayName])
    /\ chatHistory' = [chatHistory EXCEPT ![m] =
           Append(@, [sender |-> m, senderName |-> local[m].displayName,
                      text |-> text])]
    /\ acts' = SpendAct("chats")
    /\ UNCHANGED <<online, viewState, roomCapacity, peers, incomingCall,
                   peerAnalysers, timers, calls, left, deadSends, refused,
                   isWaitingForHost, pinnedView, local>>
    /\ UNCHANGED <<ytVars, wbVars, revision, activityView>>

\* what a peer that runs another revision sends and this one has no branch
\* for: an unknown type tag, and activity messages with an action of the
\* ActivityMessage type that no branch handles
UnknownMsgs ==
    {[type |-> "reaction"],
     [type |-> "activity", activityType |-> "whiteboard",
      action |-> "new-page", data |-> <<>>],
     [type |-> "activity", activityType |-> "youtube",
      action |-> "start", data |-> <<>>]}

\* such a message is on its way to one end of an open connection
ForeignMessage(key, end, msg) ==
    /\ key \in DOMAIN conns
    /\ conns[key][end] = "open" /\ conns[key][OtherEnd(end)] = "open"
    /\ acts.unknown > 0
    /\ conns' = [conns EXCEPT ![key][QueueTo(end)] = Append(@, msg)]
    /\ acts' = SpendAct("unknown")
    /\ UNCHANGED <<meshRest, ytVars, wbVars, revision, activityView,
                   pinnedView, local>>

\* ---------------------------------------------------- whiteboard runs --
\* A and B sit in the room of B, the pair settled as in the discovery
\* runs, and nothing else happens to the mesh
InitRoomWith(revisions, budget, meshBudget) ==
    /\ online = {"A", "B"}
    /\ viewState = [m \in Ids |-> IF m \in {"A", "B"} THEN "room" ELSE "lobby"]
    /\ roomCapacity = [m \in Ids |-> DefaultCapacity]
    /\ peers = [m \in Ids |-> IF m = "A" THEN Upd(<<>>, "B", Settled("B"))
                              ELSE IF m = "B" THEN Upd(<<>>, "A", Settled("A"))
                              ELSE <<>>]
    /\ incomingCall = [m \in Ids |-> NoChan]
    /\ peerAnalysers = [m \in Ids |-> IF m = "A" THEN {"B"}
                                      ELSE IF m = "B" THEN {"A"} ELSE {}]
    /\ pinnedView = [m \in Ids |-> "none"]
    /\ local = [m \in Ids |-> LocalInit(m)]
    /\ timers = [m \in Ids |-> <<>>]
    /\ left = meshBudget
    /\ deadSends = {}
    /\ refused = {}
    /\ isWaitingForHost = [m \in Ids |-> FALSE]
    /\ \E rev \in revisions : ActivityInit(rev, budget)
    /\ Established

InitRoom(revisions, budget) ==
    InitRoomWith(revisions, budget, Budget(0, 0, 0, 0, 0, 0, 0))

InitWhiteboard ==
    InitRoom({"App.tsx"},
             ActsBudget(MaxStarts, MaxDraws, MaxClears, MaxPages, 0, 0, 0))

NextWhiteboard ==
    \/ \E m \in Ids : startWhiteboard(m)
    \/ \E m \in Ids, id \in Ids : JoinWhiteboard(m, id)
    \/ \E m \in Ids : CloseActivity(m)
    \/ \E m \in Ids, drawData \in Strokes : onMouseMove(m, drawData)
    \/ \E m \in Ids : ClearBoard(m)
    \/ \E m \in Ids : PagePrevious(m)
    \/ \E m \in Ids : PageNext(m)
    \/ \E key \in DOMAIN conns, end \in Ends : DataReceive(key, end)

SpecWhiteboard == InitWhiteboard /\ [][NextWhiteboard]_vars

\* ------------------------------------------------------ batching runs --
\* the revision that sends what was drawn in batches, on a 25 ms interval
InitBatching ==
    InitRoom({"part_001"},
             ActsBudget(MaxStarts - 1, MaxDraws + 1, 0, MaxPages, 0, 0, 0))

NextBatching ==
    \/ \E m \in Ids : startWhiteboard(m)
    \/ \E m \in Ids, drawData \in Strokes : onMouseMove(m, drawData)
    \/ \E m \in Ids : SyncTick(m)
    \/ \E m \in Ids : PageNext(m)
    \/ \E key \in DOMAIN conns, end \in Ends : DataReceive(key, end)

SpecBatching == InitBatching /\ [][NextBatching]_vars

\* -------------------------------------------------------- replay runs ---
\* both members draw on their own whiteboard
InitReplay ==
    InitRoom({"App.tsx"},
             ActsBudget(MaxStarts, MaxDraws + 2, 0, 0, 0, 0, 0))

NextReplay ==
    \/ \E m \in Ids : startWhiteboard(m)
    \/ \E m \in Ids, drawData \in Strokes : onMouseMove(m, drawData)
    \/ \E key \in DOMAIN conns, end \in Ends : DataReceive(key, end)

SpecReplay == InitReplay /\ [][NextReplay]_vars

\* --------------------------------------------------------- queue runs ---
\* the members fill and reorder their queues
InitQueue ==
    InitRoom({"App.tsx"}, ActsBudget(MaxStarts, 0, 0, 0, MaxAdds, MaxMoves, 0))

NextQueue ==
    \/ \E m \in Ids : startYoutubeActivity(m)
    \/ \E m \in Ids, videoId \in VideoIds : AddClick(m, videoId)
    \/ \E m \in Ids, i \in 1..MaxAdds : AddResolve(m, i)
    \/ \E m \in Ids, itemId \in 1..(2 * MaxAdds) : removeFromQueue(m, itemId)
    \/ \E m \in Ids, index \in 1..MaxAdds, direction \in {"up", "down"} :
          moveQueueItem(m, index, direction)
    \/ \E key \in DOMAIN conns, end \in Ends : DataReceive(key, end)

SpecQueue == InitQueue /\ [][NextQueue]_vars

\* ---------------------------------------------------- shared queue runs -
\* the room after both members clicked the YouTube button and each status
\* message was delivered
WatchingPeer(id) == [Settled(id) EXCEPT !.currentActivity = "youtube"]

WatchingLocal(m) == [LocalInit(m) EXCEPT !.currentActivity = "youtube"]

BothWatching ==
    /\ online = {"A", "B"}
    /\ viewState = [m \in Ids |-> IF m \in {"A", "B"} THEN "room" ELSE "lobby"]
    /\ roomCapacity = [m \in Ids |-> DefaultCapacity]
    /\ peers = [m \in Ids |->
                  IF m = "A" THEN Upd(<<>>, "B", WatchingPeer("B"))
                  ELSE IF m = "B" THEN Upd(<<>>, "A", WatchingPeer("A"))
                  ELSE <<>>]
    /\ incomingCall = [m \in Ids |-> NoChan]
    /\ peerAnalysers = [m \in Ids |-> IF m = "A" THEN {"B"}
                                      ELSE IF m = "B" THEN {"A"} ELSE {}]
    /\ pinnedView = [m \in Ids |-> IF m \in {"A", "B"} THEN "activity"
                                   ELSE "none"]
    /\ local = [m \in Ids |-> IF m \in {"A", "B"} THEN WatchingLocal(m)
                              ELSE LocalInit(m)]
    /\ timers = [m \in Ids |-> <<>>]
    /\ calls = Upd(<<>>, FirstPair,
                   [NewCall EXCEPT !.tgt = "answered", !.iniStream = TRUE,
                                   !.tgtStream = TRUE])
    /\ conns = Upd(<<>>, FirstPair,
                   [NewConn EXCEPT !.ini = "open", !.tgt = "open"])
    /\ deadSends = {}
    /\ refused = {}
    /\ isWaitingForHost = [m \in Ids |-> FALSE]
    /\ revision = "App.tsx"
    /\ activityView = [m \in Ids |-> IF m \in {"A", "B"} THEN "youtube"
                                     ELSE "none"]
    /\ wbPageIndex = [m \in Ids |-> 0]
    /\ wbHistory = [m \in Ids |-> <<>>]
    /\ canvas = [m \in Ids |-> BlankCanvas]
    /\ wbDrawingQueue = [m \in Ids |-> <<>>]
    /\ youtubeQueue = [m \in Ids |-> <<>>]
    /\ currentVideo = [m \in Ids |-> NoItem]
    /\ player = [m \in Ids |-> NoPlayer]
    /\ isRemoteUpdate = [m \in Ids |-> FALSE]
    /\ guardTimers = [m \in Ids |-> 0]
    /\ pendingAdds = [m \in Ids |-> <<>>]
    /\ now = 1
    /\ chatHistory = [m \in Ids |-> <<>>]

InitConverge ==
    /\ BothWatching
    /\ left = Budget(0, 0, 0, 0, 0, 0, 0)
    /\ acts = ActsBudget(0, 0, 0, 0, MaxAdds + 1, MaxMoves, 0)

NextConverge ==
    \/ \E m \in Ids, videoId \in VideoIds : AddClick(m, videoId)
    \/ \E m \in Ids, i \in 1..(MaxAdds + 1) : AddResolve(m, i)
    \/ \E m \in Ids, itemId \in 1..(2 * MaxAdds + 2) : removeFromQueue(m, itemId)
    \/ \E key \in DOMAIN conns, end \in Ends : DataReceive(key, end)

SpecConverge == InitConverge /\ [][NextConverge]_vars

\* ------------------------------------------------------ catch-up runs --
\* the full mesh of A, B and C: A joined B, C joined B and, through the
\* peer list of B, A; every channel is open and every call answered
TrioKey(a, b) ==
    IF {a, b} = {"A", "B"} THEN <<"A", "B", 1>>
    ELSE IF {a, b} = {"A", "C"} THEN <<"C", "A", 1>>
    ELSE <<"C", "B", 1>>

TrioPeers(m) ==
    [id \in {"A", "B", "C"} \ {m} |->
        [Settled(id) EXCEPT !.mediaCall = TrioKey(m, id),
                            !.dataConn = TrioKey(m, id)]]

InitTrio(budget) ==
    /\ online = {"A", "B", "C"}
    /\ viewState = [m \in Ids |-> IF m \in {"A", "B", "C"} THEN "room"
                                  ELSE "lobby"]
    /\ roomCapacity = [m \in Ids |-> DefaultCapacity]
    /\ peers = [m \in Ids |-> IF m \in {"A", "B", "C"} THEN TrioPeers(m)
                              ELSE <<>>]
    /\ incomingCall = [m \in Ids |-> NoChan]
    /\ peerAnalysers = [m \in Ids |-> IF m \in {"A", "B", "C"}
                                      THEN {"A", "B", "C"} \ {m} ELSE {}]
    /\ pinnedView = [m \in Ids |-> "none"]
    /\ local = [m \in Ids |-> LocalInit(m)]
    /\ timers = [m \in Ids |-> <<>>]
    /\ calls = [key \in {TrioKey("A", "B"), TrioKey("A", "C"),
                         TrioKey("B", "C")} |->
                   [NewCall EXCEPT !.tgt = "answered", !.iniStream = TRUE,
                                   !.tgtStream = TRUE]]
    /\ conns = [key \in {TrioKey("A", "B"), TrioKey("A", "C"),
                         TrioKey("B", "C")} |->
                   [NewConn EXCEPT !.ini = "open", !.tgt = "open"]]
    /\ left = Budget(0, 0, 0, 0, 0, 0, 0)
    /\ deadSends = {}
    /\ refused = {}
    /\ isWaitingForHost = [m \in Ids |-> FALSE]
    /\ ActivityInit("App.tsx", budget)

\* A and B open the whiteboard and draw; C joins them from a tile once
\* the drawing is over
InitCatchUp ==
    InitTrio(ActsBudget(MaxStarts + 1, MaxDraws, 0, 0, 0, 0, 0))

NextCatchUp ==
    \/ \E m \in {"A", "B"} : startWhiteboard(m)
    \/ \E m \in {"A", "B"}, drawData \in Strokes : onMouseMove(m, drawData)
    \/ \E id \in Ids : acts.draws = 0 /\ JoinWhiteboard("C", id)
    \/ \E key \in DOMAIN conns, end \in Ends : DataReceive(key, end)

SpecCatchUp == InitCatchUp /\ [][NextCatchUp]_vars

\* --------------------------------------------------------- leave runs --
\* C joins the room of B while the members leave it
InitLeave ==
    InitDiscoveryWith(Budget(MaxJoins - 1, MaxPairs + 1, 0, 0, 0, 0, 0)
                      @@ [leaves |-> MaxLeaves])

NextLeave ==
    \/ NextDiscovery
    \/ \E m \in Ids : leaveRoom(m)
    \/ \E m \in Ids : LeaveTimeout(m)

SpecLeave == InitLeave /\ [][NextLeave]_vars

\* the members open and close activities, and leave the room
InitAdvertise ==
    InitRoomWith({"App.tsx"}, ActsBudget(MaxStarts, 0, 0, 0, 0, 0, 0),
                 Budget(0, 0, 0, 0, 0, 0, 0) @@ [leaves |-> MaxLeaves])

NextAdvertise ==
    \/ \E m \in Ids : startWhiteboard(m)
    \/ \E m \in Ids : startYoutubeActivity(m)
    \/ \E m \in Ids, id \in Ids : JoinWhiteboard(m, id)
    \/ \E m \in Ids : CloseActivity(m)
    \/ \E m \in Ids : leaveRoom(m)
    \/ \E m \in Ids : LeaveTimeout(m)
    \/ \E key \in DOMAIN conns, end \in Ends : DataReceive(key, end)
    \/ \E kind \in {"call", "conn"}, key \in DOMAIN calls \cup DOMAIN conns,
          end \in Ends : RemoteClose(kind, key, end)

SpecAdvertise == InitAdvertise /\ [][NextAdvertise]_vars

\* ------------------------------------------------------ playback runs ---
\* the members start a video each and use the controls of their players
InitPlayback ==
    InitRoom({"App.tsx"}, ActsBudget(MaxStarts, 0, 0, 0, MaxAdds, 0, MaxEvents))

NextPlayback ==
    \/ \E m \in Ids : startYoutubeActivity(m)
    \/ \E m \in Ids, videoId \in VideoIds : AddClick(m, videoId)
    \/ \E m \in Ids, i \in 1..MaxAdds : AddResolve(m, i)
    \/ \E m \in Ids, i \in 1..MaxAdds : PlayItem(m, i)
    \/ \E m \in Ids, state \in PlayerStates, time \in Times :
          PlayerEvent(m, state, time)
    \/ \E key \in DOMAIN conns, end \in Ends : DataReceive(key, end)

SpecPlayback == InitPlayback /\ [][NextPlayback]_vars

\* ------------------------------------------------------ presence runs ---
\* the members of a settled pair use the buttons that broadcast a status
InitPresence ==
    InitRoomWith({"App.tsx"}, ActsBudget(MaxStarts, 0, 0, 0, 0, 0, 0),
                 Budget(0, 0, 0, MaxToggles + 1, 0, 0, 0))

NextPresence ==
    \/ \E m \in Ids : toggleMute(m)
    \/ \E m \in Ids : toggleDeafen(m)
    \/ \E m \in Ids : toggleVideo(m)
    \/ \E m \in Ids : toggleScreenShare(m)
    \/ \E m \in Ids : startWhiteboard(m)
    \/ \E m \in Ids : startYoutubeActivity(m)
    \/ \E m \in Ids : CloseActivity(m)
    \/ \E key \in DOMAIN conns, end \in Ends : DataReceive(key, end)

SpecPresence == InitPresence /\ [][NextPresence]_vars

\* ----------------------------------------------------- bootstrap runs ---
\* A opens a room and may start an activity in it; B joins A
InitBootstrap ==
    InitWithActs({"A", "B"}, Budget(MaxJoins - 1, MaxPairs, 0, 0, 0, MaxHosts, 0),
                 ActsBudget(MaxStarts - 1, 0, 0, 0, 0, 0, 0))

NextBootstrap ==
    \/ \E m \in Ids, c \in Capacities : StartRoomTransition(m, c)
    \/ \E m \in Ids : RoomTimeout(m)
    \/ \E m \in Ids, t \in Ids : SubmitJoin(m, t)
    \/ \E m \in Ids : ConnectTimeout(m)
    \/ \E key \in DOMAIN conns : handleIncomingConnection(key)
    \/ \E key \in DOMAIN calls : handleIncomingCall(key)
    \/ \E m \in Ids : PeerListTimeout(m)
    \/ \E m \in Ids : acceptCall(m)
    \/ \E key \in DOMAIN conns, end \in Ends : DataOpen(key, end)
    \/ \E key \in DOMAIN conns, end \in Ends : DataReceive(key, end)
    \/ \E key \in DOMAIN calls, end \in Ends : CallStream(key, end)
    \/ \E kind \in {"call", "conn"}, key \in DOMAIN calls \cup DOMAIN conns,
          end \in Ends : RemoteClose(kind, key, end)
    \/ \E m \in Ids : startWhiteboard(m)
    \/ \E m \in Ids : startYoutubeActivity(m)

SpecBootstrap == InitBootstrap /\ [][NextBootstrap]_vars

\* ----------------------------------------------------- dispatch runs ---
\* the members of a settled pair chat, mute and draw while messages of
\* another revision arrive
InitDispatch ==
    InitRoomWith({"App.tsx"},
                 ActsBudget(MaxStarts - 1, MaxDraws - 1, 0, 0, 0, 0, 0)
                    @@ [chats |-> MaxChats, unknown |-> MaxUnknown],
                 Budget(0, 0, 0, MaxToggles, 0, 0, 0))

NextDispatch ==
    \/ \E m \in Ids, text \in {"salut"} : SendChat(m, text)
    \/ \E key \in DOMAIN conns, end \in Ends, msg \in UnknownMsgs :
          ForeignMessage(key, end, msg)
    \/ \E m \in Ids : toggleMute(m)
    \/ \E m \in Ids : startWhiteboard(m)
    \/ \E m \in Ids, drawData \in Strokes : onMouseMove(m, drawData)
    \/ \E key \in DOMAIN conns, end \in Ends : DataReceive(key, end)

SpecDispatch == InitDispatch /\ [][NextDispatch]_vars

\* ------------------------------------------------------ failure runs ---
\* the settled pair and the joiner of the discovery runs, with a channel
\* that fails
InitFailure ==
    InitDiscoveryWith(Budget(MaxJoins - 1, MaxPairs + 1, MaxFaults, 0, 0, 0, 0))

NextFailure ==
    \/ NextDiscovery
    \/ \E kind \in {"call", "conn"}, key \in DOMAIN calls \cup DOMAIN conns,
          end \in Ends, event \in {"close", "error"} :
          TransportFailure(kind, key, end, event)

SpecFailure == InitFailure /\ [][NextFailure]_vars

\* ================================================================ claims
\* what a step delivers or runs, read off the two states of the step
ConnArrives(key) ==
    key \in DOMAIN conns /\ conns[key].tgt = "offered" /\ conns'[key].tgt # "offered"

CallArrives(key) ==
    key \in DOMAIN calls /\ calls[key].tgt = "offered" /\ calls'[key].tgt # "offered"

Count(m) == Cardinality(DOMAIN peers[m])

Members == {"A", "B", "C"}

\* the timers a step appended to the queue of m
Scheduled(m) ==
    IF Len(timers'[m]) > Len(timers[m])
    THEN SubSeq(timers'[m], Len(timers[m]) + 1, Len(timers'[m]))
    ELSE <<>>

Range(q) == {q[i] : i \in DOMAIN q}

\* C1 -- admission ceiling: a data connection or a media call that arrives
\* at a member whose peer map holds roomCapacity - 1 entries or more is
\* closed at once by that member; the peer map, the incoming-call prompt
\* and the timers (no peer list is scheduled) stay as they were.
C1_AdmissionCeiling ==
    [][/\ \A key \in DOMAIN conns :
            ConnArrives(key) /\ Count(Target(key)) >= roomCapacity[Target(key)] - 1
            => /\ conns'[key].tgt = "closed"
               /\ peers' = peers /\ incomingCall' = incomingCall
               /\ timers' = timers
       /\ \A key \in DOMAIN calls :
            CallArrives(key) /\ Count(Target(key)) >= roomCapacity[Target(key)] - 1
            => /\ calls'[key].tgt = "closed"
               /\ peers' = peers /\ incomingCall' = incomingCall
               /\ timers' = timers]_vars

\* B, in a room of capacity 2 that A fills, has closed both channels of C
C1_BothRefused ==
    /\ roomCapacity["B"] = 2
    /\ \E key \in DOMAIN conns :
          /\ Initiator(key) = "C" /\ Target(key) = "B"
          /\ refused = {<<"conn", key>>, <<"call", key>>}
          /\ conns[key].tgt = "closed" /\ calls[key].tgt = "closed"
    /\ DOMAIN peers["B"] = {"A"}

\* every channel that exists is open at both ends and carries nothing, every
\* call is answered and streams both ways, nothing is pending anywhere
Quiet ==
    /\ \A m \in Ids : timers[m] = <<>> /\ incomingCall[m] = NoChan
    /\ \A key \in DOMAIN conns :
          /\ conns[key].ini = "open" /\ conns[key].tgt = "open"
          /\ conns[key].toTgt = <<>> /\ conns[key].toIni = <<>>
    /\ \A key \in DOMAIN calls :
          /\ calls[key].ini = "calling" /\ calls[key].tgt = "answered"
          /\ calls[key].iniStream /\ calls[key].tgtStream

Joined(from, to) ==
    \E key \in DOMAIN conns : Initiator(key) = from /\ Target(key) = to

\* C2 -- mesh discovery end to end: A is connected to B, capacities are 3
\* or more, C has joined B; once every channel is open, every call accepted
\* and nothing closed or pending, A, B and C hold exactly two Peer entries
\* each, one for each of the other two.
C2_MeshDiscovery ==
    (/\ \A m \in Members : roomCapacity[m] >= 3
     /\ Joined("C", "B")
     /\ Quiet)
    => \A m \in Members : DOMAIN peers[m] = Members \ {m}

\* the full mesh, reached through the peer list B sent to C
C2_FullMesh ==
    /\ Quiet
    /\ Joined("A", "B") /\ Joined("C", "B") /\ Joined("C", "A")
    /\ \A m \in Members : DOMAIN peers[m] = Members \ {m}

\* the step hands a peer list of member m to connection key
SendsPeerList(m) ==
    /\ timers[m] # <<>>
    /\ Head(timers[m]).kind = "peer-list"
    /\ timers'[m] = Tail(timers[m])

\* C3 -- every peer list a member m sends to a newly connected peer X holds
\* exactly the ids of the other peers m is connected to: never the id of X,
\* never the id of m, and it is sent only when there is such a peer.
C3_PeerListOthers ==
    [][\A m \in Ids :
         SendsPeerList(m) =>
            LET X == Initiator(Head(timers[m]).conn)
                list == Head(timers[m]).peers
            IN  /\ list = DOMAIN peers[m] \ {X}
                /\ X \notin list
                /\ m \notin list
                /\ list # {}]_vars

\* the step is the receipt of a peer list on the end of connection key
ReceivesPeerList(key, end) ==
    /\ conns[key][end] = "open" /\ conns'[key][end] = "open"
    /\ conns[key][QueueTo(end)] # <<>>
    /\ Head(conns[key][QueueTo(end)]).type = "peer-list"
    /\ conns'[key][QueueTo(end)] = Tail(conns[key][QueueTo(end)])

\* C4 -- on receipt of a peer list the receiver calls connectToPeer for
\* every listed id that has no Peer entry and is not its own id, and for no
\* other id: one connection attempt is scheduled for each such id, none for
\* an id of the peer map or for the own id, and the receipt itself opens no
\* channel and changes no Peer entry.
C4_PeerListReceipt ==
    [][\A key \in DOMAIN conns, end \in Ends :
         ReceivesPeerList(key, end) =>
            LET m == Owner(key, end)
                listed == Head(conns[key][QueueTo(end)]).peers
                unknown == {pid \in listed : pid \notin DOMAIN peers[m] /\ pid # m}
            IN  /\ Len(Scheduled(m)) = Cardinality(unknown)
                /\ Range(Scheduled(m)) = {ConnectTimer(pid) : pid \in unknown}
                /\ DOMAIN calls' = DOMAIN calls
                /\ DOMAIN conns' = DOMAIN conns
                /\ peers' = peers]_vars

\* C has a connection attempt to A pending, from a list that named A
C4_AttemptScheduled ==
    /\ timers["C"] = <<ConnectTimer("A")>>
    /\ "A" \notin DOMAIN peers["C"]
    /\ DOMAIN peers["C"] = {"B"}

\* the step runs the delayed body of a connectToPeer call of m
ConnectBody(m) ==
    /\ timers[m] # <<>>
    /\ Head(timers[m]).kind = "connect"
    /\ timers'[m] = Tail(timers[m])

NoOpCase(m, targetId) ==
    m \notin online \/ targetId \in DOMAIN peers[m] \/ targetId = m

\* the guard of connectToPeer, in the closure its callers run in, lets
\* through exactly the calls outside the three cases; no peer list ever
\* travels towards the adopting end of a connection, whose handlers run in
\* the closure of the login form
C5_Guard ==
    /\ \A m \in Ids, targetId \in Ids :
          connectToPeerPasses(m, targetId, "ini") <=> ~NoOpCase(m, targetId)
    /\ \A key \in DOMAIN conns : \A i \in DOMAIN conns[key].toTgt :
          conns[key].toTgt[i].type # "peer-list"

C5_Call ==
    \A m \in Ids, targetId \in Ids :
       SubmitJoin(m, targetId) =>
          /\ UNCHANGED <<calls, conns, peers>>
          /\ Scheduled(m) = IF NoOpCase(m, targetId) THEN <<>>
                            ELSE <<ConnectTimer(targetId)>>

C5_Body ==
    \A m \in Ids :
       ConnectBody(m) =>
          LET targetId == Head(timers[m]).target
              newCalls == DOMAIN calls' \ DOMAIN calls
              newConns == DOMAIN conns' \ DOMAIN conns
          IN  /\ Cardinality(newCalls) = 1 /\ Cardinality(newConns) = 1
              /\ \A key \in newCalls \cup newConns :
                    Initiator(key) = m /\ Target(key) = targetId
              /\ \A key \in newCalls : calls'[key].ini = "calling"
              /\ \A key \in newConns : conns'[key].ini = "connecting"
              /\ \A key \in DOMAIN calls : calls'[key] = calls[key]
              /\ \A key \in DOMAIN conns : conns'[key] = conns[key]
              /\ DOMAIN peers'[m] = DOMAIN peers[m] \cup {targetId}
              /\ peers'[m][targetId].mediaCall \in newCalls
              /\ peers'[m][targetId].dataConn \in newConns
              /\ \A id \in DOMAIN peers[m] \ {targetId} :
                    peers'[m][id] = peers[m][id]
              /\ \A x \in Ids \ {m} : peers'[x] = peers[x]

C6_OutgoingCeiling ==
    [][\A m \in Ids :
         Count(m) >= MAX_PEERS_LIMIT =>
            /\ \A i \in DOMAIN Scheduled(m) : Scheduled(m)[i].kind # "connect"
            /\ \A key \in (DOMAIN conns' \ DOMAIN conns) \cup
                          (DOMAIN calls' \ DOMAIN calls) : Initiator(key) # m
            /\ DOMAIN peers'[m] \subseteq DOMAIN peers[m]]_vars

ClosedAt(chans, key, m) == chans[key][EndOf(key, m)] = "closed"

C7_Ops ==
    \A m \in online, id \in Ids :
       LET pm == removePeerPeers(m, id)
           cs == removePeerCalls(calls, m, id)
           cn == removePeerConns(conns, m, id)
       IN  /\ DOMAIN pm = DOMAIN peers[m] \ {id}
           /\ \A other \in DOMAIN pm : pm[other] = peers[m][other]
           /\ removePeerAnalysers(m, id) = peerAnalysers[m] \ {id}
           /\ removePeerPinned(m, id) =
                 IF pinnedView[m] = id THEN "none" ELSE pinnedView[m]
           /\ id \in DOMAIN peers[m] =>
                 LET call == peers[m][id].mediaCall
                     conn == peers[m][id].dataConn
                 IN  /\ call # NoChan => ClosedAt(cs, call, m)
                     /\ conn # NoChan => ClosedAt(cn, conn, m)
                     /\ \A key \in DOMAIN calls \ {call} : cs[key] = calls[key]
                     /\ \A key \in DOMAIN conns \ {conn} : cn[key] = conns[key]
           /\ id \notin DOMAIN peers[m] =>
                 /\ pm = peers[m] /\ cs = calls /\ cn = conns
                 /\ removePeerAnalysers(m, id) = peerAnalysers[m]
                 /\ removePeerPinned(m, id) = pinnedView[m]

C7_Step ==
    \A m \in Ids, id \in Ids :
       (id \in DOMAIN peers[m] /\ id \notin DOMAIN peers'[m]) =>
          LET call == peers[m][id].mediaCall
              conn == peers[m][id].dataConn
          IN  /\ call # NoChan => calls'[call][EndOf(call, m)] = "closed"
              /\ conn # NoChan => conns'[conn][EndOf(conn, m)] = "closed"
              /\ DOMAIN peers'[m] = DOMAIN peers[m] \ {id}
              /\ \A other \in DOMAIN peers'[m] :
                    peers'[m][other] = peers[m][other]
              /\ peerAnalysers'[m] = peerAnalysers[m] \ {id}
              /\ pinnedView'[m] =
                    IF pinnedView[m] = id THEN "none" ELSE pinnedView[m]

\* C7 -- removePeer(id) closes the data connection and the media call
\* recorded for id, deletes the Peer entry of id, drops the analyser of id
\* and resets the pinned view when it showed id; applied to an id without
\* entry (so also applied a second time) it changes nothing; the entries of
\* all other ids stay as they were.
C7_RemovePeer == []C7_Ops /\ [][C7_Step]_vars

\* a member removed the peer it had pinned: entry, analyser and pin are
\* gone and its ends of both channels are closed
C7_Removed ==
    \E key \in DOMAIN conns :
       LET m == Target(key)
           id == Initiator(key)
       IN  /\ left.pins = MaxPins - 1
           /\ pinnedView[m] = "none"
           /\ id \notin DOMAIN peers[m]
           /\ id \notin peerAnalysers[m]
           /\ conns[key].tgt = "closed" /\ calls[key].tgt = "closed"
           /\ refused = {}
           /\ calls[key].tgtStream

\* the channels with X that have reached member m
Reached(chans, key, m, X) ==
    /\ {Initiator(key), Target(key)} = {m, X}
    /\ chans[key][EndOf(key, m)] # "offered"

\* C8 -- transport failure: when a close or an error event fires at member
\* m on the data connection or the media call of peer X, m ends with no
\* Peer entry for X and with its ends of all its channels with X closed,
\* and schedules no connection attempt.
C8_TransportFailure ==
    [][\A kind \in {"call", "conn"}, key \in DOMAIN calls \cup DOMAIN conns,
          end \in Ends :
         (\/ RemoteClose(kind, key, end)
          \/ \E event \in {"close", "error"} :
                TransportFailure(kind, key, end, event))
         => LET m == Owner(key, end)
                X == RemoteOf(key, end)
            IN  /\ X \notin DOMAIN peers'[m]
                /\ \A k \in DOMAIN calls' :
                      Reached(calls', k, m, X) => ClosedAt(calls', k, m)
                /\ \A k \in DOMAIN conns' :
                      Reached(conns', k, m, X) => ClosedAt(conns', k, m)
                /\ Scheduled(m) = <<>>]_vars

\* partial updates of the kinds the handlers pass to addPeer
Partials(e) ==
    {[status |-> [e.status EXCEPT !.muted = TRUE]],
     [status |-> [e.status EXCEPT !.videoEnabled = TRUE],
      currentActivity |-> "youtube"],
     [displayName |-> "Utilisateur", avatar |-> "none"],
     [stream |-> TRUE],
     [volume |-> 0]}

Upsert(e, partial) == addPeer(Upd(<<>>, e.id, e), e.id, partial)[e.id]

C9_Ops ==
    \A m \in online : \A id \in DOMAIN peers[m] :
       LET e == peers[m][id]
           e2 == Upsert(Upsert(e, [status |-> [e.status EXCEPT !.muted = TRUE]]),
                        [status |-> [Upsert(e, [status |->
                                       [e.status EXCEPT !.muted = TRUE]]).status
                                     EXCEPT !.videoEnabled = TRUE]])
       IN  /\ e2.status.deafened = e.status.deafened
           /\ e2.displayName = e.displayName
           /\ e2.status.muted /\ e2.status.videoEnabled
           /\ \A partial \in Partials(e) :
                 /\ DOMAIN Upsert(e, partial) = DOMAIN e
                 /\ \A f \in DOMAIN e :
                       Upsert(e, partial)[f] =
                          IF f \in DOMAIN partial THEN partial[f] ELSE e[f]

\* the step is the receipt of a status message on the end of connection key
ReceivesStatus(key, end) ==
    /\ conns[key][end] = "open" /\ conns'[key][end] = "open"
    /\ conns[key][QueueTo(end)] # <<>>
    /\ Head(conns[key][QueueTo(end)]).type = "status"
    /\ conns'[key][QueueTo(end)] = Tail(conns[key][QueueTo(end)])

C9_Step ==
    \A key \in DOMAIN conns, end \in Ends :
       (ReceivesStatus(key, end) /\ RemoteOf(key, end) \in DOMAIN peers[Owner(key, end)])
       => LET m == Owner(key, end)
              id == RemoteOf(key, end)
              data == Head(conns[key][QueueTo(end)])
          IN  /\ \A f \in DOMAIN peers[m][id] \ {"status", "currentActivity"} :
                    peers'[m][id][f] = peers[m][id][f]
              /\ peers'[m][id].status.muted = data.muted
              /\ peers'[m][id].status.deafened = data.deafened
              /\ peers'[m][id].status.videoEnabled = data.videoEnabled
              /\ peers'[m][id].status.isScreenSharing = data.isScreenSharing
              /\ \A other \in DOMAIN peers[m] \ {id} :
                    peers'[m][other] = peers[m][other]

StatusFlags == {"muted", "deafened", "videoEnabled", "isScreenSharing"}

\* every status message carries all four flags of its sender, so over the
\* one data connection of a pair the entry follows the sender flag by flag:
\* an update sent for one flag cannot move another
C9_InSync ==
    \A m \in online : \A id \in DOMAIN peers[m] :
       LET key == peers[m][id].dataConn
       IN  (/\ key # NoChan
            /\ Opened(m, id) + Opened(id, m) = 1
            /\ conns[key].ini = "open" /\ conns[key].tgt = "open"
            /\ \A i \in DOMAIN conns[key][QueueTo(EndOf(key, m))] :
                  conns[key][QueueTo(EndOf(key, m))][i].type # "status")
           => \A f \in StatusFlags : peers[m][id].status[f] = local[id][f]

C10_OnlyOpenSends == deadSends = {}

\* how often segment d occurs in history h
CountOf(h, d) == Cardinality({i \in DOMAIN h : h[i] = d})

SameSegments(h1, h2) == \A d \in Strokes : CountOf(h1, d) = CountOf(h2, d)

\* C11 -- drawing convergence: two participants whose histories of a page
\* hold the same segments, in whatever order, get the same raster when each
\* replays its history onto a blank canvas.
C11_DrawingConvergence ==
    \A m1 \in online, m2 \in online :
       \A page \in DOMAIN wbHistory[m1] \cap DOMAIN wbHistory[m2] :
          SameSegments(wbHistory[m1][page], wbHistory[m2][page])
          => Replay(wbHistory[m1][page]) = Replay(wbHistory[m2][page])

\* the step is the receipt, on the end of connection key, of a message of
\* the given activity and action
ReceivesActivity(key, end, activityType, action) ==
    /\ conns[key][end] = "open" /\ conns'[key][end] = "open"
    /\ conns[key][QueueTo(end)] # <<>>
    /\ Head(conns[key][QueueTo(end)]).type = "activity"
    /\ Head(conns[key][QueueTo(end)]).activityType = activityType
    /\ Head(conns[key][QueueTo(end)]).action = action
    /\ conns'[key][QueueTo(end)] = Tail(conns[key][QueueTo(end)])

\* C12 -- a participant that shows the whiteboard and receives a draw
\* segment or a draw batch for page p appends the received segments, in
\* order, to its history of page p, and renders them at once exactly when p
\* is the page it displays.
C12_DrawReceipt ==
    [][\A key \in DOMAIN conns, end \in Ends, action \in {"draw", "draw-batch"} :
         (ReceivesActivity(key, end, "whiteboard", action)
          /\ HasCanvas(Owner(key, end)))
         => LET m == Owner(key, end)
                data == Head(conns[key][QueueTo(end)]).data
                lines == IF action = "draw" THEN <<data.drawData>>
                         ELSE data.drawBatch
            IN  /\ wbHistory'[m] = PushAll(wbHistory[m], data.pageIndex, lines)
                /\ canvas'[m] = IF data.pageIndex = wbPageIndex[m]
                                THEN DrawAll(lines, canvas[m])
                                ELSE canvas[m]]_vars

\* history h2 is h1 with the given page emptied
ClearedFrom(h1, h2, page) ==
    /\ HistoryOf(h2, page) = <<>>
    /\ \A other \in (DOMAIN h1 \cup DOMAIN h2) \ {page} :
          HistoryOf(h2, other) = HistoryOf(h1, other)

\* a click on the clear button, the first as well as the second in a row
C13_Issuer ==
    \A m \in Ids :
       ClearBoard(m)
       => ClearedFrom(wbHistory[m], wbHistory'[m], wbPageIndex[m])

\* the receipt of a clear by a participant that shows the same page
C13_Receiver ==
    \A key \in DOMAIN conns, end \in Ends :
       (/\ ReceivesActivity(key, end, "whiteboard", "clear")
        /\ HasCanvas(Owner(key, end))
        /\ wbPageIndex[Owner(key, end)] = wbPageIndex[RemoteOf(key, end)])
       => ClearedFrom(wbHistory[Owner(key, end)], wbHistory'[Owner(key, end)],
                      wbPageIndex[Owner(key, end)])

\* C13 -- idempotent clear: a clear, issued once or twice in a row on a
\* page, leaves the history of that page empty and the history of every
\* other page as it was, at the issuer and at a receiver of the clear
\* messages.
C13_IdempotentClear == [][C13_Issuer /\ C13_Receiver]_vars

\* the messages queued towards the remote end of (key, end) grew by msgs
SentOn(key, end, msgs) ==
    conns'[key][QueueTo(OtherEnd(end))] = conns[key][QueueTo(OtherEnd(end))] \o msgs

\* C14 -- a participant that shows the whiteboard and receives sync-request
\* from peer R sends its whole history, every page with its segments in
\* history order, to R and to nobody else, and keeps its own history and
\* displayed page.
C14_SyncRequest ==
    [][\A key \in DOMAIN conns, end \in Ends :
         (ReceivesActivity(key, end, "whiteboard", "sync-request")
          /\ HasCanvas(Owner(key, end)))
         => LET m == Owner(key, end)
                r == RemoteOf(key, end)
            IN  /\ \E order \in Orderings(DOMAIN wbHistory[m]) :
                     \E k2 \in DOMAIN conns, e2 \in Ends :
                        /\ Owner(k2, e2) = m /\ RemoteOf(k2, e2) = r
                        /\ SentOn(k2, e2, SyncMsgs(wbHistory[m], order))
                /\ \A k3 \in DOMAIN conns, e3 \in Ends :
                      (Owner(k3, e3) = m /\ RemoteOf(k3, e3) # r)
                      => SentOn(k3, e3, <<>>)
                /\ wbHistory'[m] = wbHistory[m]
                /\ wbPageIndex'[m] = wbPageIndex[m]]_vars

IsBatch(msg) ==
    msg.type = "activity" /\ msg.activityType = "whiteboard"
    /\ msg.action = "draw-batch"

\* a locally drawn segment is rendered, stored under the active page and
\* enqueued, and nothing is sent
C15_DrawStep(m) ==
    \E d \in Strokes :
       /\ wbDrawingQueue'[m] = Append(wbDrawingQueue[m], d)
       /\ canvas'[m] = drawOnCanvas(d, canvas[m])
       /\ wbHistory'[m] = PushAll(wbHistory[m], wbPageIndex[m], <<d>>)
       /\ conns' = conns

\* a tick with a non-empty queue hands one batch, the whole queue in
\* drawing order, to every open data connection of m and empties the queue
C15_TickStep(m) ==
    /\ wbDrawingQueue[m] # <<>>
    /\ wbDrawingQueue'[m] = <<>>
    /\ \A key \in DOMAIN conns :
          IF key \in broadcastTargets(conns, m)
          THEN \E msg \in {conns'[key][QueueTo(OtherEnd(EndOf(key, m)))][
                              Len(conns'[key][QueueTo(OtherEnd(EndOf(key, m)))])]} :
                  /\ SentOn(key, EndOf(key, m), <<msg>>)
                  /\ IsBatch(msg)
                  /\ msg.data.drawBatch = wbDrawingQueue[m]
          ELSE conns'[key] = conns[key]
    /\ wbHistory' = wbHistory /\ canvas' = canvas

\* some queue of messages grew by a batch
C15_BatchLeaves(m) ==
    \E key \in DOMAIN conns :
       LET q == QueueTo(OtherEnd(EndOf(key, m)))
       IN  /\ m \in {Initiator(key), Target(key)}
           /\ Len(conns'[key][q]) > Len(conns[key][q])
           /\ IsBatch(conns'[key][q][Len(conns'[key][q])])

\* C15 -- local drawing and batching: every locally drawn segment is
\* rendered, appended to the history of the active page and enqueued; the
\* queue changes in no other way than by such an append or by a tick that
\* broadcasts the whole non-empty queue as one draw-batch and empties it;
\* and a batch leaves only in such a tick, so every enqueued segment is sent
\* exactly once, in drawing order, and an empty queue sends nothing.
C15_LocalBatching ==
    [][\A m \in Ids :
          /\ (wbDrawingQueue'[m] # wbDrawingQueue[m])
             => (C15_DrawStep(m) \/ C15_TickStep(m))
          /\ (acts'.draws < acts.draws /\ wbHistory'[m] # wbHistory[m])
             => C15_DrawStep(m)
          /\ C15_BatchLeaves(m) => C15_TickStep(m)]_vars

\* a batch of two segments is on its way, the sender's queue is empty again
\* and the sender's history holds what the batch holds
C15_BatchOfTwo ==
    \E key \in DOMAIN conns, m \in online :
       LET q == conns[key][QueueTo(OtherEnd(EndOf(key, m)))]
       IN  /\ m \in {Initiator(key), Target(key)}
           /\ wbDrawingQueue[m] = <<>>
           /\ \E i \in DOMAIN q :
                 /\ IsBatch(q[i])
                 /\ Len(q[i].data.drawBatch) = 2
                 /\ HistoryOf(wbHistory[m], 0) = q[i].data.drawBatch

\* a click on a page button shows the new page, broadcasts it and keeps
\* every history
C16_Switch ==
    \A m \in Ids, newPage \in 0..(MaxPages + 1) :
       SetPage(m, newPage)
       => /\ wbPageIndex'[m] = newPage
          /\ \A key \in broadcastTargets(conns, m) :
                SentOn(key, EndOf(key, m),
                       <<WbMsg("set-page", [pageIndex |-> newPage])>>)
          /\ wbHistory' = wbHistory

\* the receipt of set-page by a participant that shows the whiteboard
C16_Receipt ==
    \A key \in DOMAIN conns, end \in Ends :
       (ReceivesActivity(key, end, "whiteboard", "set-page")
        /\ HasCanvas(Owner(key, end)))
       => /\ wbPageIndex'[Owner(key, end)] =
                Head(conns[key][QueueTo(end)]).data.pageIndex
          /\ wbHistory' = wbHistory

\* C16 -- a page switch sets the displayed page of the one who switches
\* and broadcasts set-page with the new index; a receiver of set-page
\* displays the received index; neither changes the history of any page.
C16_PageSwitch == [][C16_Switch /\ C16_Receipt]_vars

\* C17 -- playback drift: a participant that watches with a player at
\* position l and receives sync-state with position r seeks to r if and
\* only if |l - r| > 1.5 s (positions in tenths of a second: 100 against
\* 90 and against 85 stays, 100 against 50 seeks).
C17_PlaybackDrift ==
    [][\A key \in DOMAIN conns, end \in Ends :
         (/\ ReceivesActivity(key, end, "youtube", "sync-state")
          /\ Watches(Owner(key, end))
          /\ player[Owner(key, end)].exists)
         => LET m == Owner(key, end)
                l == player[m].time
                r == Head(conns[key][QueueTo(end)]).data.currentTime
            IN  player'[m].time = IF Abs(l - r) > 15 THEN r ELSE l]_vars

\* the receipt of sync-state by a participant that watches with a player
\* sets the remote-update guard
C18_GuardSet ==
    \A key \in DOMAIN conns, end \in Ends :
       (/\ ReceivesActivity(key, end, "youtube", "sync-state")
        /\ Watches(Owner(key, end))
        /\ player[Owner(key, end)].exists)
       => isRemoteUpdate'[Owner(key, end)]

\* a state-change event of the player of m under the guard sends nothing
C18_Silent ==
    \A m \in Ids :
       (isRemoteUpdate[m] /\ player'[m] # player[m]
        /\ acts'.events < acts.events)
       => conns' = conns

AddsOwn(m) ==
    /\ now' = now + 1
    /\ youtubeQueue'[m] # <<>>
    /\ youtubeQueue'[m] = Append(youtubeQueue[m],
                                 youtubeQueue'[m][Len(youtubeQueue'[m])])

\* the last message handed to connection key by m
LastSent(key, m) ==
    conns'[key][QueueTo(OtherEnd(EndOf(key, m)))][
        Len(conns'[key][QueueTo(OtherEnd(EndOf(key, m)))])]

\* C19 -- queue auto-play: an add to an empty queue while nothing is
\* playing makes the added item the current item of the one who adds and
\* broadcasts it as the selected item; an add to a non-empty queue, or
\* while an item is playing, leaves the current item as it was.
C19_QueueAutoPlay ==
    [][\A m \in Ids :
          AddsOwn(m)
          => LET newItem == youtubeQueue'[m][Len(youtubeQueue'[m])]
             IN  IF youtubeQueue[m] = <<>> /\ currentVideo[m] = NoItem
                 THEN /\ currentVideo'[m] = newItem
                      /\ \A key \in broadcastTargets(conns, m) :
                            LastSent(key, m) =
                               YtMsg("play-queue", [queueItem |-> newItem])
                 ELSE currentVideo'[m] = currentVideo[m]]_vars

\* a reorder hands the whole resulting queue to every open connection
C20_Reorder ==
    \A m \in Ids :
       (/\ acts'.moves < acts.moves
        /\ Len(youtubeQueue'[m]) = Len(youtubeQueue[m])
        /\ youtubeQueue'[m] # youtubeQueue[m])
       => \A key \in broadcastTargets(conns, m) :
             LastSent(key, m) =
                YtMsg("update-queue", [queue |-> youtubeQueue'[m]])

\* the receipt of update-queue by a participant that watches
C20_Receipt ==
    \A key \in DOMAIN conns, end \in Ends :
       (ReceivesActivity(key, end, "youtube", "update-queue")
        /\ Watches(Owner(key, end)))
       => youtubeQueue'[Owner(key, end)] =
             Head(conns[key][QueueTo(end)]).data.queue

\* C20 -- snapshot replace: a reorder broadcasts the sender's whole
\* resulting queue, and a receiver of update-queue ends with exactly the
\* received queue, whatever its queue was before, so that the same
\* snapshot received twice gives what it gives received once.
C20_SnapshotReplace == [][C20_Reorder /\ C20_Receipt]_vars

\* the messages m has handed to its end of connection key and that are
\* still on their way
OutQueue(cs, key, end) == cs[key][QueueTo(OtherEnd(end))]

\* nothing is sent on an end that has not seen its open event
C21_Unsent ==
    \A key \in DOMAIN conns, end \in Ends :
       conns[key][end] \in {"connecting", "offered", "adopted"}
       => OutQueue(conns, key, end) = <<>>

\* the open event of an end hands over the status and then the profile of
\* its owner, as they are at that moment, and nothing went before them
C21_Step ==
    \A key \in DOMAIN conns \cap DOMAIN conns', end \in Ends :
       (conns[key][end] # "open" /\ conns'[key][end] = "open")
       => LET m == Owner(key, end)
          IN  /\ OutQueue(conns, key, end) = <<>>
              /\ OutQueue(conns', key, end) =
                    << [type |-> "status", muted |-> local[m].muted,
                        deafened |-> local[m].deafened,
                        videoEnabled |-> local[m].videoEnabled,
                        isScreenSharing |-> local[m].isScreenSharing,
                        currentActivity |-> local[m].currentActivity],
                       [type |-> "profile-update", avatar |-> local[m].avatar,
                        displayName |-> local[m].displayName] >>

\* C21 -- on the open event of a data channel its owner sends on it first
\* its full current status (muted, deafened, videoEnabled, screen sharing,
\* current activity) and then its profile (displayName, avatar), with the
\* values of that moment, before any other message goes out on the channel.
C21_OpenSendsStatusFirst == []C21_Unsent /\ [][C21_Step]_vars

\* a member that muted itself before the channel opened has sent, as the
\* first two messages of the channel, a status that says so and its profile
C21_MutedAtOpen ==
    \E key \in DOMAIN conns, end \in Ends :
       /\ conns[key][end] = "open"
       /\ Len(OutQueue(conns, key, end)) = 2
       /\ OutQueue(conns, key, end)[1].type = "status"
       /\ OutQueue(conns, key, end)[1].muted
       /\ OutQueue(conns, key, end)[2].type = "profile-update"
       /\ OutQueue(conns, key, end)[2].displayName = Owner(key, end)

\* an announcement that the given activity has started
IsStart(msg, view) ==
    msg.type = "activity" /\ msg.action = "start" /\ msg.activityType = view

\* C22 -- a data channel that opens while a shared activity is active at
\* its owner (whenever that activity was started) carries an activity start
\* announcement for that activity from the owner; a channel that opens while
\* no activity is active carries none.
C22_ActivityAnnounced ==
    [][\A key \in DOMAIN conns \cap DOMAIN conns', end \in Ends :
         (conns[key][end] # "open" /\ conns'[key][end] = "open")
         => LET m == Owner(key, end)
                sent == OutQueue(conns', key, end)
            IN  IF activityView[m] # "none"
                THEN \E i \in DOMAIN sent : IsStart(sent[i], activityView[m])
                ELSE \A i \in DOMAIN sent : sent[i].type # "activity"]_vars

KnownTypes ==
    {"status", "profile-update", "chat", "file-share", "peer-list", "activity"}

KnownActions ==
    {"sync-state", "add-queue", "remove-queue", "play-queue", "update-queue",
     "draw", "clear", "set-page", "sync-request"}

IsUnknown(msg) ==
    \/ msg.type \notin KnownTypes
    \/ msg.type = "activity" /\ msg.action \notin KnownActions

\* C23 -- dispatch of a message whose type tag is none of status,
\* profile-update, chat, file-share, peer-list and activity, or of an
\* activity message with an unknown action, changes no state: peer map, chat
\* history, queue, current item, draw history and displayed page stay as
\* they were and no message is sent.
C23_UnknownIgnored ==
    [][\A key \in DOMAIN conns, end \in Ends :
         (/\ conns[key][end] = "open"
          /\ conns[key][QueueTo(end)] # <<>>
          /\ IsUnknown(Head(conns[key][QueueTo(end)]))
          /\ conns'[key][QueueTo(end)] = Tail(conns[key][QueueTo(end)]))
         => /\ peers' = peers
            /\ chatHistory' = chatHistory
            /\ youtubeQueue' = youtubeQueue /\ currentVideo' = currentVideo
            /\ wbHistory' = wbHistory /\ wbPageIndex' = wbPageIndex
            /\ timers' = timers
            /\ conns' = [conns EXCEPT ![key][QueueTo(end)] = Tail(@)]]_vars

\* every message of the other revision has been dispatched at a member
\* that has a chat message, a muted peer and a drawing to lose
C23_Dispatched ==
    /\ acts.unknown = 0
    /\ \A key \in DOMAIN conns : conns[key].toIni = <<>> /\ conns[key].toTgt = <<>>
    /\ \E m \in online, id \in Ids :
          /\ id \in DOMAIN peers[m] /\ peers[m][id].status.muted
          /\ chatHistory[m] # <<>>
          /\ HasCanvas(m) /\ HistoryOf(wbHistory[m], 0) # <<>>

\* the channel joins m and y
Joins(key, m, y) == {Initiator(key), Target(key)} = {m, y}

\* m drops its entry of x: every other entry and every channel of m with
\* another peer stay as they were, and m hands no message to anybody
C24_Step ==
    \A m \in Ids, x \in Ids :
       (x \in DOMAIN peers[m] /\ x \notin DOMAIN peers'[m])
       => /\ \A y \in DOMAIN peers[m] \ {x} :
                /\ y \in DOMAIN peers'[m] /\ peers'[m][y] = peers[m][y]
                /\ \A key \in DOMAIN conns :
                      Joins(key, m, y) => conns'[key] = conns[key]
                /\ \A key \in DOMAIN calls :
                      Joins(key, m, y) => calls'[key] = calls[key]
          /\ \A key \in DOMAIN conns :
                m \in {Initiator(key), Target(key)}
                => OutQueue(conns', key, EndOf(key, m))
                      = OutQueue(conns, key, EndOf(key, m))

\* C24 -- errors are local-only: when member A removes peer X after a
\* channel failure, A sends no message about it to any other peer, and A's
\* entries and channels for every peer other than X are unchanged.
C24_LocalOnly == [][C24_Step]_vars

\* after a failure a member has dropped one peer, kept the settled entry
\* of another and still holds an open data connection to it
C24_OneDropped ==
    \E m \in online, x \in online, y \in online :
       /\ left.faults = 0
       /\ x # y /\ x # m /\ y # m
       /\ x \notin DOMAIN peers[m]
       /\ \E key \in DOMAIN conns :
             /\ Joins(key, m, x) /\ <<"conn", key>> \notin refused
             /\ conns[key][EndOf(key, m)] = "closed"
       /\ y \in DOMAIN peers[m]
       /\ peers[m][y].stream
       /\ peers[m][y].dataConn \in DOMAIN conns
       /\ IsOpen(conns, peers[m][y].dataConn, m)

\* the receipt of sync-state by a participant that watches with a player
SyncArrives(key, end) ==
    /\ ReceivesActivity(key, end, "youtube", "sync-state")
    /\ Watches(Owner(key, end))
    /\ player[Owner(key, end)].exists

\* C25 -- each received sync-state keeps the remote-update guard set for
\* the whole 800 ms that follow its own receipt: the receipt sets the guard
\* and starts a release timer, and the guard stays set as long as the timer
\* of any receipt is still pending, the timer of an earlier receipt
\* notwithstanding.
C25_GuardHeld ==
    /\ [][\A key \in DOMAIN conns, end \in Ends :
            SyncArrives(key, end)
            => /\ isRemoteUpdate'[Owner(key, end)]
               /\ guardTimers'[Owner(key, end)] =
                     guardTimers[Owner(key, end)] + 1]_vars
    /\ [](\A m \in Ids : guardTimers[m] > 0 => isRemoteUpdate[m])

\* C26 -- a participant that watches with a player and receives sync-state
\* ends with its player in the received state, playing, paused or
\* buffering, whether or not it had to seek.
C26_StateReconciled ==
    [][\A key \in DOMAIN conns, end \in Ends :
         SyncArrives(key, end)
         => player'[Owner(key, end)].state =
               Head(conns[key][QueueTo(end)]).data.playerState]_vars

\* the end that j holds of every call and data connection it opened to m
\* is closed
ClosedTowards(cs, j, m) ==
    \A key \in DOMAIN cs :
       (Initiator(key) = j /\ Target(key) = m) => cs[key].ini = "closed"

\* the admission check of a member closes an arriving channel
C27_Rejects(kind, key) ==
    <<kind, key>> \in refused' \ refused

\* the joiner observes the close of a channel the admission check closed
C27_Observes(kind, key) ==
    /\ <<kind, key>> \in refused
    /\ RemoteClose(kind, key, "ini")

\* C27 -- a member that rejects a joiner's data connection or media call
\* by closing it keeps its peer map as it was; the joiner, when it
\* observes the close, ends with no entry for the member and with the call
\* and the data connection it opened to the member closed, and the
\* member's peer map is still what it was.
C27_RejectedJoiner ==
    [][\A kind \in {"call", "conn"}, key \in DOMAIN calls \cup DOMAIN conns :
         /\ C27_Rejects(kind, key)
            => peers'[Target(key)] = peers[Target(key)]
         /\ C27_Observes(kind, key)
            => /\ Target(key) \notin DOMAIN peers'[Initiator(key)]
               /\ ClosedTowards(calls', Initiator(key), Target(key))
               /\ ClosedTowards(conns', Initiator(key), Target(key))
               /\ peers'[Target(key)] = peers[Target(key)]]_vars

\* no status message of p is still on its way to q
StatusDelivered(p, q) ==
    \A key \in DOMAIN conns :
       Joins(key, p, q)
       => \A i \in DOMAIN conns[key][QueueTo(EndOf(key, q))] :
             conns[key][QueueTo(EndOf(key, q))][i].type # "status"

\* C28 -- once the latest status message of P has been delivered to Q,
\* the entry Q holds for P shows the four flags and the current activity
\* that P has locally, whatever P toggled last: mute, deafen, video, the
\* start or the stop of a screen share, the start or the close of an
\* activity.
C28_PresenceReplicated ==
    \A p \in online, q \in online :
       (p # q /\ p \in DOMAIN peers[q] /\ StatusDelivered(p, q))
       => /\ peers[q][p].status =
                [muted |-> local[p].muted, deafened |-> local[p].deafened,
                 videoEnabled |-> local[p].videoEnabled,
                 isScreenSharing |-> local[p].isScreenSharing]
          /\ peers[q][p].currentActivity = local[p].currentActivity

\* nothing is on its way: every connection queue is empty and no
\* addToQueue call still awaits its answer
AllDelivered ==
    /\ \A key \in DOMAIN conns :
          conns[key].toTgt = <<>> /\ conns[key].toIni = <<>>
    /\ \A m \in online : pendingAdds[m] = <<>>

\* C29 -- in a room whose participants all watch, whatever they add to
\* or remove from the queue concurrently, they hold the same queue, same
\* items in the same order, as soon as every broadcast message has been
\* delivered.
C29_QueueConvergence ==
    (AllDelivered /\ \A m \in online : Watches(m))
    => \A p \in online, q \in online : youtubeQueue[p] = youtubeQueue[q]

\* member m holds an entry for joiner j that carries the data connection
\* j opened
Adopted(m, j) ==
    /\ j \in DOMAIN peers[m]
    /\ peers[m][j].dataConn # NoChan
    /\ Initiator(peers[m][j].dataConn) = j

\* the media call key of a joiner reaches the admission check of its target
C30_CallArrives(key) ==
    /\ key \in DOMAIN calls
    /\ calls[key].tgt = "offered"
    /\ calls'[key].tgt # "offered"

\* C30 -- when the media call of a joiner arrives at a member that has
\* adopted the joiner's data connection, the joiner's own entry does not
\* count against the call: with room left for the joiner among the other
\* peers, the call is not closed by the capacity check.
C30_OwnEntryNotCounted ==
    [][\A key \in DOMAIN calls :
         (/\ C30_CallArrives(key)
          /\ Adopted(Target(key), Initiator(key))
          /\ Cardinality(DOMAIN peers[Target(key)] \ {Initiator(key)})
                < roomCapacity[Target(key)] - 1)
         => <<"call", key>> \notin refused']_vars

\* acceptCall runs at m and answers the pending call
C31_Accepts(m) ==
    /\ incomingCall[m] # NoChan
    /\ incomingCall'[m] = NoChan
    /\ calls[incomingCall[m]].tgt = "ringing"
    /\ calls'[incomingCall[m]].tgt = "answered"

\* C31 -- accepting the pending call never leaves the member with more
\* than capacity - 1 peer entries, the peers admitted between the arrival
\* of the call and its acceptance included.
C31_AcceptCeiling ==
    [][\A m \in Ids :
         C31_Accepts(m)
         => Cardinality(DOMAIN peers'[m]) <= roomCapacity[m] - 1]_vars

\* C32 -- every incoming call that passed the capacity check is answered
\* or closed: a call leaves the member's call prompt only answered
\* (acceptCall) or closed (rejectCall), also when a second call arrives
\* while it is pending.
C32_PendingCallSettled ==
    [][\A m \in Ids :
         (incomingCall[m] # NoChan /\ incomingCall'[m] # incomingCall[m])
         => calls'[incomingCall[m]].tgt \in {"answered", "closed"}]_vars

\* the channels of cs that j opened to t and has not closed
LiveTowards(cs, j, t) ==
    {key \in DOMAIN cs :
        Initiator(key) = j /\ Target(key) = t /\ cs[key].ini # "closed"}

\* C33 -- a member never holds more than one outgoing data connection and
\* one outgoing media call to the same target at a time, however close
\* together the connectToPeer calls for that target were issued.
C33_OnePairPerTarget ==
    \A j \in Ids, t \in Ids :
       /\ Cardinality(LiveTowards(conns, j, t)) <= 1
       /\ Cardinality(LiveTowards(calls, j, t)) <= 1

\* segment d is stored in the history of page p
StoredOn(h, p, d) ==
    \E i \in DOMAIN HistoryOf(h, p) : HistoryOf(h, p)[i] = d

\* C34 -- every segment of a transmitted draw-batch was drawn on the page
\* the batch is tagged with: a segment drawn on a page and still queued
\* when the local page changes does not leave under the new page index.
C34_BatchPageTag ==
    [][\A m \in Ids, key \in DOMAIN conns :
         (/\ wbDrawingQueue[m] # <<>>
          /\ wbDrawingQueue'[m] = <<>>
          /\ key \in broadcastTargets(conns, m))
         => /\ IsBatch(LastSent(key, m))
            /\ \A i \in DOMAIN LastSent(key, m).data.drawBatch :
                  StoredOn(wbHistory[m], LastSent(key, m).data.pageIndex,
                           LastSent(key, m).data.drawBatch[i])]_vars

\* no page switch of the sender is on its way behind the head of the queue
\* towards end: the page the sender shows is the page its clear was
\* issued on
NoSwitchBehind(key, end) ==
    \A i \in DOMAIN conns[key][QueueTo(end)] :
       ~ /\ conns[key][QueueTo(end)][i].type = "activity"
         /\ conns[key][QueueTo(end)][i].action = "set-page"

\* C35 -- a clear issued by P on page p and delivered to Q empties Q's
\* history of page p and of no other page, whichever page Q displays at
\* the delivery.
C35_ClearSamePage ==
    [][\A key \in DOMAIN conns, end \in Ends :
         (/\ ReceivesActivity(key, end, "whiteboard", "clear")
          /\ HasCanvas(Owner(key, end))
          /\ NoSwitchBehind(key, end))
         => ClearedFrom(wbHistory[Owner(key, end)], wbHistory'[Owner(key, end)],
                        wbPageIndex[RemoteOf(key, end)])]_vars

\* C36 -- catch-up without duplication: C, with an empty history, joins
\* the whiteboard of A and B, who hold the same history, and asks for the
\* state; once every answer is delivered, C holds on each page every
\* segment once, as one responder does.
C36_CatchUpOnce ==
    (/\ AllDelivered
     /\ \A m \in {"A", "B", "C"} : HasCanvas(m)
     /\ wbHistory["A"] = wbHistory["B"])
    => \A page \in DOMAIN wbHistory["A"] :
          HistoryOf(wbHistory["C"], page) = HistoryOf(wbHistory["A"], page)

\* the queue the claim expects of moveQueueItem(index, direction), index
\* counted from 1
C37_Expected(queue, index, direction) ==
    IF direction = "up" /\ index > 1 /\ index <= Len(queue)
    THEN [k \in DOMAIN queue |->
             IF k = index THEN queue[index - 1]
             ELSE IF k = index - 1 THEN queue[index] ELSE queue[k]]
    ELSE IF direction = "down" /\ index >= 1 /\ index < Len(queue)
    THEN [k \in DOMAIN queue |->
             IF k = index THEN queue[index + 1]
             ELSE IF k = index + 1 THEN queue[index] ELSE queue[k]]
    ELSE queue

C38_AdvertisedIsDisplayed ==
    \A m \in online : local[m].currentActivity = activityView[m]

LeaveTimers(q) == Cardinality({i \in DOMAIN q : q[i].kind = "leave"})

\* leaveRoom is called at m
C39_Leaves(m) == LeaveTimers(timers'[m]) > LeaveTimers(timers[m])

\* the delayed reset of leaveRoom runs at m
C39_Resets(m) == LeaveTimers(timers'[m]) < LeaveTimers(timers[m])

\* C39 -- leaveRoom closes the data connection and the media call of
\* every peer of the peer map, and its delayed reset leaves the
\* participant in the lobby with an empty peer map, no audio analysers,
\* no activity view and no pinned view, the entries created between the
\* call and the reset included.
C39_LeaveRoom ==
    [][\A m \in Ids :
         /\ C39_Leaves(m)
            => \A id \in DOMAIN peers[m] :
                  /\ peers[m][id].mediaCall # NoChan
                     => calls'[peers[m][id].mediaCall][EndOf(peers[m][id].mediaCall, m)]
                           = "closed"
                  /\ peers[m][id].dataConn # NoChan
                     => conns'[peers[m][id].dataConn][EndOf(peers[m][id].dataConn, m)]
                           = "closed"
         /\ C39_Resets(m)
            => /\ viewState'[m] = "lobby"
               /\ peers'[m] = <<>>
               /\ peerAnalysers'[m] = {}
               /\ activityView'[m] = "none"
               /\ pinnedView'[m] = "none"]_vars

\* B has left and sits in the lobby with an empty peer map, although it
\* adopted the data connection of C after the call of leaveRoom
C39_EntryWiped ==
    /\ viewState["B"] = "lobby"
    /\ peers["B"] = <<>>
    /\ left.leaves < MaxLeaves
    /\ \E key \in DOMAIN conns :
          /\ Initiator(key) = "C" /\ Target(key) = "B"
          /\ conns[key].tgt \in {"adopted", "open"}
          /\ <<"conn", key>> \notin refused

====
